---- MODULE Spec2Model ----
(***************************************************************************)
(* Model of the campaign-improvement prediction engine of MailMindAI.       *)
(*                                                                         *)
(* Two classes named EmailCampaignMLModel exist in the repository:         *)
(*   - src/api/ml_model_simple.py : the rule-based engine (gap to           *)
(*     benchmark x industry multiplier x size adjustment x jitter);         *)
(*   - src/api/ml_model.py        : the regressor-based variant, whose      *)
(*     fitted regressors and scaler are library objects.                   *)
(* The variable `variant` says which of the two the process has imported.  *)
(*                                                                         *)
(* Numbers are exact decimal fixed point:                                  *)
(*   rates, gaps, improvements in the result ... tenths of a percent       *)
(*   multipliers, size adjustments ............. tenths                    *)
(*   jitter factors ............................ hundredths                *)
(*   confidence ................................ thousandths, rounded to   *)
(*                                               hundredths in the result  *)
(* A Python value is a tuple: <<v>> is the number or string v, <<>> is     *)
(* None.  A dict is a function whose DOMAIN is the set of its keys.        *)
(***************************************************************************)
EXTENDS Integers, Sequences, FiniteSets, TLC

VARIABLES variant, is_trained, historical_data, model_stats, benchmarks,
          model_file, fitted, call, db, threads

vars == <<variant, is_trained, historical_data, model_stats, benchmarks,
          model_file, fitted, call, db, threads>>

(***************************************************************************)
(* Python values and dicts                                                 *)
(***************************************************************************)
None == <<>>

Val(v) == <<v>>

IsNone(v) == Len(v) = 0

EmptyDict == [k \in {} |-> None]

\* dict.get(key, default)
Get(d, key, default) == IF key \in DOMAIN d THEN d[key] ELSE default

Max(a, b) == IF a >= b THEN a ELSE b

Min(a, b) == IF a <= b THEN a ELSE b

\* round(): x counted in units of 1/unit of the result's last decimal,
\* to the nearest, ties to even
RoundDiv(x, unit) ==
    LET q == x \div unit
        r == x % unit
    IN  IF 2 * r > unit THEN q + 1
        ELSE IF 2 * r < unit THEN q
        ELSE IF q % 2 = 0 THEN q ELSE q + 1

(***************************************************************************)
(* Tables of the rule-based engine                                         *)
(***************************************************************************)
\* __init__: self.benchmarks, tenths of a percent
InitBenchmarks == [open_rate |-> 220, click_rate |-> 35, conversion_rate |-> 20]

\* predict_improvements: industry_multipliers, tenths
industry_multipliers ==
    [Technology |-> 12, Healthcare |-> 11, Finance |-> 10, Retail |-> 13, Education |-> 11]

\* predict_improvements: size_adjustments, tenths
size_adjustments ==
    [k \in {"Small (1-50)", "Medium (51-200)", "Large (201-1000)", "Enterprise (1000+)"} |->
        CASE k = "Small (1-50)" -> 11
          [] k = "Medium (51-200)" -> 10
          [] k = "Large (201-1000)" -> 9
          [] OTHER -> 8]

\* the default of both .get(..., 1.0) lookups, tenths
DefaultFactor == 10

\* table.get(key, 0): a key that is not in the table wipes the gap out
LookupDefaultZero(table, key) ==
    IF ~IsNone(key) /\ key[1] \in DOMAIN table THEN table[key[1]] ELSE 0

\* table.get(key, 1.0) where key is a Python value (None is a legal key)
Lookup(table, key) ==
    IF ~IsNone(key) /\ key[1] \in DOMAIN table THEN table[key[1]] ELSE DefaultFactor

(***************************************************************************)
(* calculate_confidence                                                    *)
(***************************************************************************)
required_fields == {"emails_sent", "open_rate", "click_rate", "conversion_rate"}

\* a comparison or subtraction with None raises TypeError
NumericRaises(cd, fields) == \E f \in fields : f \in DOMAIN cd /\ IsNone(cd[f])

\* campaign_data.get(field, 0) for a numeric field that is not None
Num(cd, f) == Get(cd, f, Val(0))[1]

\* base confidence 0.7, thousandths
BaseConfidence == 700

\* +0.1 / -0.1, thousandths
SizeBonus == 100

MinConfidence == 300

MaxConfidence == 950

LargeCampaign == 10000

SmallCampaign == 1000

\* the number of required fields that are present and > 0
Completeness(cd) == Cardinality({f \in required_fields : Num(cd, f) > 0})

\* calculate_confidence without its last line, the clamp
calculate_confidence_unclamped(cd) ==
    LET scaled == (BaseConfidence * Completeness(cd)) \div Cardinality(required_fields)
        emails_sent == Num(cd, "emails_sent")
    IN  IF emails_sent > LargeCampaign THEN scaled + SizeBonus
        ELSE IF emails_sent < SmallCampaign THEN scaled - SizeBonus
        ELSE scaled

\* calculate_confidence with the size thresholds included: >= 10000 and <= 1000
calculate_confidence_inclusive(cd) ==
    LET scaled == (BaseConfidence * Completeness(cd)) \div Cardinality(required_fields)
        emails_sent == Num(cd, "emails_sent")
        adjusted == IF emails_sent >= LargeCampaign THEN scaled + SizeBonus
                    ELSE IF emails_sent <= SmallCampaign THEN scaled - SizeBonus
                    ELSE scaled
    IN  Max(MinConfidence, Min(MaxConfidence, adjusted))

\* thousandths; defined when no required field is None
calculate_confidence(cd) ==
    LET scaled == (BaseConfidence * Completeness(cd)) \div Cardinality(required_fields)
        emails_sent == Num(cd, "emails_sent")
        adjusted == IF emails_sent > LargeCampaign THEN scaled + SizeBonus
                    ELSE IF emails_sent < SmallCampaign THEN scaled - SizeBonus
                    ELSE scaled
    IN  Max(MinConfidence, Min(MaxConfidence, adjusted))

(***************************************************************************)
(* predict_improvements of the rule-based engine                           *)
(***************************************************************************)
\* a missing metric taken to be at its benchmark: no gap
GapMissingAtBenchmark(bm, cd, m) == IF m \in DOMAIN cd THEN Max(0, bm[m] - Num(cd, m)) ELSE 0

\* abs(self.benchmarks[m] - campaign_data.get(m, 0)): a rate above the benchmark
\* has a gap too
GapUnsigned(bm, cd, m) == Max(bm[m] - Num(cd, m), Num(cd, m) - bm[m])

\* max(0, self.benchmarks[m] - campaign_data.get(m, 0)), tenths
Gap(bm, cd, m) == Max(0, bm[m] - Num(cd, m))

Gaps(bm, cd) == [m \in {"open_rate", "click_rate", "conversion_rate"} |-> Gap(bm, cd, m)]

\* floors and ceilings of the three clamps, percent
OpenFloor == 5

OpenCeiling == 45

ClickFloor == 8

ClickCeiling == 60

ConversionFloor == 10

ConversionCeiling == 80

\* one unit of gap x multiplier x size_adj x jitter is 1/100000 percent
RawUnit == 100000

\* the same unit per tenth of a percent
RawPerTenth == 10000

\* a clamp that moves a value already inside the bounds: min(ceiling, max(floor, x) + 1)
ClampDrifting(x, floor, ceiling) == Min(ceiling, Max(floor, x) + 1)

\* min(ceiling, max(floor, x))
Clamp(x, floor, ceiling) == Min(ceiling, Max(floor, x))

\* the clamp without its floor: min(ceiling, gap * multiplier * size_adj * jitter)
ImprovementNoFloor(gap, multiplier, size_adj, jitter, floor, ceiling) ==
    Min(ceiling * RawUnit, gap * multiplier * size_adj * jitter)

\* the jitter applied after the floor: min(ceiling, max(floor, gap * ...) * jitter)
ImprovementJitterAfterFloor(gap, multiplier, size_adj, jitter, floor, ceiling) ==
    Min(ceiling * RawUnit, Max(floor * 1000, gap * multiplier * size_adj) * jitter)

\* min(ceiling, max(floor, gap * multiplier * size_adj * jitter)), in RawUnit
Improvement(gap, multiplier, size_adj, jitter, floor, ceiling) ==
    Clamp(gap * multiplier * size_adj * jitter, floor * RawUnit, ceiling * RawUnit)

\* the except branch without its confidence_score
DefaultPredictionNoConfidence ==
    [open_rate_improvement |-> 150,
     click_rate_improvement |-> 250,
     conversion_rate_improvement |-> 300,
     prediction_method |-> "default_fallback"]

\* the except branch of predict_improvements
DefaultPrediction ==
    [open_rate_improvement |-> 150,
     click_rate_improvement |-> 250,
     conversion_rate_improvement |-> 300,
     confidence_score |-> 50,
     prediction_method |-> "default_fallback"]

\* the try branch without the size adjustment
RulePredictionNoSize(bm, cd, jitter) ==
    LET multiplier == Lookup(industry_multipliers, Get(cd, "target_industry", Val("Unknown")))
        open_improvement == Improvement(Gap(bm, cd, "open_rate"), multiplier, DefaultFactor,
                                        jitter[1], OpenFloor, OpenCeiling)
        click_improvement == Improvement(Gap(bm, cd, "click_rate"), multiplier, DefaultFactor,
                                         jitter[2], ClickFloor, ClickCeiling)
        conversion_improvement == Improvement(Gap(bm, cd, "conversion_rate"), multiplier,
                                              DefaultFactor, jitter[3],
                                              ConversionFloor, ConversionCeiling)
    IN  [open_rate_improvement |-> RoundDiv(open_improvement, RawPerTenth),
         click_rate_improvement |-> RoundDiv(click_improvement, RawPerTenth),
         conversion_rate_improvement |-> RoundDiv(conversion_improvement, RawPerTenth),
         confidence_score |-> RoundDiv(calculate_confidence(cd), 10),
         prediction_method |-> "rule_based_with_statistics"]

\* the try branch of predict_improvements; jitter = <<open, click, conversion>>
RulePrediction(bm, cd, jitter) ==
    LET multiplier == Lookup(industry_multipliers, Get(cd, "target_industry", Val("Unknown")))
        size_adj == Lookup(size_adjustments, Get(cd, "target_company_size", Val("Unknown")))
        open_improvement == Improvement(Gap(bm, cd, "open_rate"), multiplier, size_adj,
                                        jitter[1], OpenFloor, OpenCeiling)
        click_improvement == Improvement(Gap(bm, cd, "click_rate"), multiplier, size_adj,
                                         jitter[2], ClickFloor, ClickCeiling)
        conversion_improvement == Improvement(Gap(bm, cd, "conversion_rate"), multiplier, size_adj,
                                              jitter[3], ConversionFloor, ConversionCeiling)
    IN  [open_rate_improvement |-> RoundDiv(open_improvement, RawPerTenth),
         click_rate_improvement |-> RoundDiv(click_improvement, RawPerTenth),
         conversion_rate_improvement |-> RoundDiv(conversion_improvement, RawPerTenth),
         confidence_score |-> RoundDiv(calculate_confidence(cd), 10),
         prediction_method |-> "rule_based_with_statistics"]

\* campaign_data['target_industry'] instead of .get: a missing categorical key
\* raises KeyError and the fallback is returned
PredictBodyStrictKeys(bm, cd, jitter) ==
    IF NumericRaises(cd, required_fields)
          \/ \E k \in {"target_industry", "target_company_size"} : k \notin DOMAIN cd
    THEN DefaultPrediction
    ELSE RulePrediction(bm, cd, jitter)

\* the body of predict_improvements after the lazy training
PredictBody(bm, cd, jitter) ==
    IF NumericRaises(cd, required_fields) THEN DefaultPrediction
    ELSE RulePrediction(bm, cd, jitter)

(***************************************************************************)
(* Training of the rule-based engine                                       *)
(***************************************************************************)
numeric_features == {"emails_sent", "open_rate", "click_rate", "conversion_rate",
                     "bounce_rate", "unsubscribe_rate"}

categorical_features == {"target_market", "target_industry", "target_company_size", "age_range"}

\* prepare_features, for one campaign
Features(campaign) ==
    [k \in numeric_features \cup categorical_features |->
        IF k \in numeric_features THEN Get(campaign, k, Val(0))
        ELSE Get(campaign, k, Val("Unknown"))]

prepare_features(campaigns_data) ==
    [i \in 1..Len(campaigns_data) |-> Features(campaigns_data[i])]

\* create_synthetic_improvement_data: its own table has the key 'Unknown'
training_multipliers ==
    [Technology |-> 12, Healthcare |-> 11, Finance |-> 10, Retail |-> 13, Education |-> 11,
     Unknown |-> 10]

TrainOpenCeiling == 50

TrainClickCeiling == 75

TrainConversionCeiling == 100

\* one unit of potential x market_multiplier x jitter is 1/10000 percent
TrainUnit == 10000

\* the synthetic improvement without its clamp
SyntheticImprovementUnclamped(potential, market_multiplier, jitter, floor, ceiling) ==
    RoundDiv(potential * market_multiplier * jitter, 100)

\* min(ceiling, max(floor, potential * market_multiplier * jitter)) rounded to
\* two decimals: hundredths of a percent
SyntheticImprovement(potential, market_multiplier, jitter, floor, ceiling) ==
    RoundDiv(Min(ceiling * TrainUnit, Max(floor * TrainUnit, potential * market_multiplier * jitter)),
             100)

\* one element of improvements_data; draw = <<open, click, conversion>> jitter
SyntheticRow(bm, campaign, draw) ==
    LET market_multiplier == Lookup(training_multipliers, campaign["target_industry"])
    IN  [open_rate |-> SyntheticImprovement(Gap(bm, campaign, "open_rate"), market_multiplier,
                                            draw[1], OpenFloor, TrainOpenCeiling),
         click_rate |-> SyntheticImprovement(Gap(bm, campaign, "click_rate"), market_multiplier,
                                             draw[2], ClickFloor, TrainClickCeiling),
         conversion_rate |-> SyntheticImprovement(Gap(bm, campaign, "conversion_rate"),
                                                  market_multiplier, draw[3],
                                                  ConversionFloor, TrainConversionCeiling)]

create_synthetic_improvement_data(bm, campaigns_data, draws) ==
    LET features == prepare_features(campaigns_data)
    IN  [i \in 1..Len(features) |-> SyntheticRow(bm, features[i], draws[i])]

RECURSIVE SumSeq(_)
SumSeq(xs) == IF xs = <<>> THEN 0 ELSE Head(xs) + SumSeq(Tail(xs))

RECURSIVE MaxSeq(_)
MaxSeq(xs) == IF Len(xs) = 1 THEN xs[1] ELSE Max(Head(xs), MaxSeq(Tail(xs)))

RECURSIVE MinSeq(_)
MinSeq(xs) == IF Len(xs) = 1 THEN xs[1] ELSE Min(Head(xs), MinSeq(Tail(xs)))

\* sorted(xs), by insertion
RECURSIVE Sorted(_)
Sorted(xs) ==
    IF xs = <<>> THEN <<>>
    ELSE LET rest == Sorted(Tail(xs))
             x == Head(xs)
             below == SelectSeq(rest, LAMBDA y : y <= x)
             above == SelectSeq(rest, LAMBDA y : y > x)
         IN  below \o <<x>> \o above

\* statistics.mean: the exact quotient num / den
Mean(xs) == [num |-> SumSeq(xs), den |-> Len(xs)]

\* statistics.median: the middle element, or the mean of the two middle ones
Median(xs) ==
    LET s == Sorted(xs)
        n == Len(xs)
    IN  IF n % 2 = 1 THEN [num |-> s[(n + 1) \div 2], den |-> 1]
        ELSE [num |-> s[n \div 2] + s[n \div 2 + 1], den |-> 2]

Stats(xs) == [mean |-> Mean(xs), median |-> Median(xs), max |-> MaxSeq(xs), min |-> MinSeq(xs)]

\* fewer campaigns than this: "trained_with_defaults"
MinTrainingCampaigns == 3

\* json.dump / json.load of model_data: booleans, numbers and string-keyed
\* dicts are written and read back as themselves
JsonDump(model_data) == <<"json", model_data>>

JsonLoad(text) == text[2]

\* no file at model_path
NoFile == <<>>

\* the attribute model_stats does not exist before the first training or load
Unset == <<>>

\* save_model writing the benchmarks as whole percents
SavedModelWholePercents(self) ==
    JsonDump([is_trained |-> self.is_trained,
              benchmarks |-> [m \in DOMAIN self.benchmarks |-> (self.benchmarks[m] \div 10) * 10],
              model_stats |-> IF self.model_stats = Unset THEN EmptyDict ELSE self.model_stats[1],
              historical_data_count |-> Len(self.historical_data)])

\* save_model: the text written to model_path
SavedModel(self) ==
    JsonDump([is_trained |-> self.is_trained,
              benchmarks |-> self.benchmarks,
              model_stats |-> IF self.model_stats = Unset THEN EmptyDict ELSE self.model_stats[1],
              historical_data_count |-> Len(self.historical_data)])

\* train_model emptying historical_data on a short list
TrainModelDefaultsForgetting(self, file, campaigns_data, draws) ==
    IF Len(campaigns_data) < MinTrainingCampaigns
    THEN [self |-> [self EXCEPT !.is_trained = TRUE, !.historical_data = <<>>],
          file |-> file,
          ret |-> [status |-> "trained_with_defaults", campaigns_count |-> Len(campaigns_data)]]
    ELSE IF \E i \in 1..Len(campaigns_data) :
                NumericRaises(campaigns_data[i], {"open_rate", "click_rate", "conversion_rate"})
    THEN [self |-> [self EXCEPT !.is_trained = TRUE],
          file |-> file,
          ret |-> [status |-> "error", fallback |-> TRUE]]
    ELSE LET improvements == create_synthetic_improvement_data(self.benchmarks, campaigns_data, draws)
             column(m) == [i \in 1..Len(improvements) |-> improvements[i][m]]
             trained == [is_trained |-> TRUE,
                         historical_data |-> prepare_features(campaigns_data),
                         model_stats |-> <<[m \in {"open_rate", "click_rate", "conversion_rate"} |->
                                               Stats(column(m))]>>,
                         benchmarks |-> self.benchmarks]
         IN  [self |-> trained,
              file |-> SavedModel(trained),
              ret |-> [campaigns_trained |-> Len(campaigns_data),
                       open_rate_avg_improvement |->
                           RoundDiv(SumSeq(column("open_rate")), Len(campaigns_data)),
                       click_rate_avg_improvement |->
                           RoundDiv(SumSeq(column("click_rate")), Len(campaigns_data)),
                       conversion_rate_avg_improvement |->
                           RoundDiv(SumSeq(column("conversion_rate")), Len(campaigns_data))]]

\* train_model clearing is_trained on a short list
TrainModelDefaultsUntrained(self, file, campaigns_data, draws) ==
    IF Len(campaigns_data) < MinTrainingCampaigns
    THEN [self |-> [self EXCEPT !.is_trained = FALSE],
          file |-> file,
          ret |-> [status |-> "trained_with_defaults", campaigns_count |-> Len(campaigns_data)]]
    ELSE IF \E i \in 1..Len(campaigns_data) :
                NumericRaises(campaigns_data[i], {"open_rate", "click_rate", "conversion_rate"})
    THEN [self |-> [self EXCEPT !.is_trained = TRUE],
          file |-> file,
          ret |-> [status |-> "error", fallback |-> TRUE]]
    ELSE LET improvements == create_synthetic_improvement_data(self.benchmarks, campaigns_data, draws)
             column(m) == [i \in 1..Len(improvements) |-> improvements[i][m]]
             trained == [is_trained |-> TRUE,
                         historical_data |-> prepare_features(campaigns_data),
                         model_stats |-> <<[m \in {"open_rate", "click_rate", "conversion_rate"} |->
                                               Stats(column(m))]>>,
                         benchmarks |-> self.benchmarks]
         IN  [self |-> trained,
              file |-> SavedModel(trained),
              ret |-> [campaigns_trained |-> Len(campaigns_data),
                       open_rate_avg_improvement |->
                           RoundDiv(SumSeq(column("open_rate")), Len(campaigns_data)),
                       click_rate_avg_improvement |->
                           RoundDiv(SumSeq(column("click_rate")), Len(campaigns_data)),
                       conversion_rate_avg_improvement |->
                           RoundDiv(SumSeq(column("conversion_rate")), Len(campaigns_data))]]

\* train_model whose except branch does not set is_trained
TrainModelErrorUntrained(self, file, campaigns_data, draws) ==
    IF Len(campaigns_data) < MinTrainingCampaigns
    THEN [self |-> [self EXCEPT !.is_trained = TRUE],
          file |-> file,
          ret |-> [status |-> "trained_with_defaults", campaigns_count |-> Len(campaigns_data)]]
    ELSE IF \E i \in 1..Len(campaigns_data) :
                NumericRaises(campaigns_data[i], {"open_rate", "click_rate", "conversion_rate"})
    THEN [self |-> self,
          file |-> file,
          ret |-> [status |-> "error", fallback |-> TRUE]]
    ELSE LET improvements == create_synthetic_improvement_data(self.benchmarks, campaigns_data, draws)
             column(m) == [i \in 1..Len(improvements) |-> improvements[i][m]]
             trained == [is_trained |-> TRUE,
                         historical_data |-> prepare_features(campaigns_data),
                         model_stats |-> <<[m \in {"open_rate", "click_rate", "conversion_rate"} |->
                                               Stats(column(m))]>>,
                         benchmarks |-> self.benchmarks]
         IN  [self |-> trained,
              file |-> SavedModel(trained),
              ret |-> [campaigns_trained |-> Len(campaigns_data),
                       open_rate_avg_improvement |->
                           RoundDiv(SumSeq(column("open_rate")), Len(campaigns_data)),
                       click_rate_avg_improvement |->
                           RoundDiv(SumSeq(column("click_rate")), Len(campaigns_data)),
                       conversion_rate_avg_improvement |->
                           RoundDiv(SumSeq(column("conversion_rate")), Len(campaigns_data))]]

\* train_model: the object and the file afterwards, and the returned dict
TrainModel(self, file, campaigns_data, draws) ==
    IF Len(campaigns_data) < MinTrainingCampaigns
    THEN [self |-> [self EXCEPT !.is_trained = TRUE],
          file |-> file,
          ret |-> [status |-> "trained_with_defaults", campaigns_count |-> Len(campaigns_data)]]
    ELSE IF \E i \in 1..Len(campaigns_data) :
                NumericRaises(campaigns_data[i], {"open_rate", "click_rate", "conversion_rate"})
    THEN [self |-> [self EXCEPT !.is_trained = TRUE],
          file |-> file,
          ret |-> [status |-> "error", fallback |-> TRUE]]
    ELSE LET improvements == create_synthetic_improvement_data(self.benchmarks, campaigns_data, draws)
             column(m) == [i \in 1..Len(improvements) |-> improvements[i][m]]
             trained == [is_trained |-> TRUE,
                         historical_data |-> prepare_features(campaigns_data),
                         model_stats |-> <<[m \in {"open_rate", "click_rate", "conversion_rate"} |->
                                               Stats(column(m))]>>,
                         benchmarks |-> self.benchmarks]
         IN  [self |-> trained,
              file |-> SavedModel(trained),
              ret |-> [campaigns_trained |-> Len(campaigns_data),
                       open_rate_avg_improvement |->
                           RoundDiv(SumSeq(column("open_rate")), Len(campaigns_data)),
                       click_rate_avg_improvement |->
                           RoundDiv(SumSeq(column("click_rate")), Len(campaigns_data)),
                       conversion_rate_avg_improvement |->
                           RoundDiv(SumSeq(column("conversion_rate")), Len(campaigns_data))]]

\* load_model: the object afterwards, and the returned bool
LoadModel(self, file) ==
    IF file = NoFile THEN [self |-> self, ret |-> FALSE]
    ELSE LET model_data == JsonLoad(file)
         IN  [self |-> [self EXCEPT !.is_trained = model_data.is_trained,
                                    !.benchmarks = model_data.benchmarks,
                                    !.model_stats = <<model_data.model_stats>>],
              ret |-> TRUE]

\* the lazy training also saving the model
PredictImprovementsSaving(self, file, cd, jitter) ==
    LET lazy == IF ~self.is_trained THEN TrainModel(self, file, <<cd>>, <<jitter>>)
                ELSE [self |-> self, file |-> file]
    IN  [self |-> lazy.self,
         file |-> SavedModel(lazy.self),
         ret |-> PredictBody(lazy.self.benchmarks, cd, jitter)]

\* a trained model answering with the mean improvements of its statistics
PredictImprovementsFromStats(self, file, cd, jitter) ==
    LET body == PredictBody(self.benchmarks, cd, jitter)
        stats == self.model_stats[1]
    IN  [self |-> [self EXCEPT !.is_trained = TRUE],
         file |-> file,
         ret |-> IF self.model_stats = Unset \/ self.model_stats[1] = EmptyDict
                    \/ body.prediction_method = "default_fallback"
                 THEN body
                 ELSE [body EXCEPT !.open_rate_improvement =
                                       RoundDiv(stats.open_rate.mean.num,
                                                10 * stats.open_rate.mean.den)]]

\* predict_improvements: lazy training on [campaign_data], then the body
PredictImprovements(self, file, cd, jitter) ==
    LET lazy == IF ~self.is_trained THEN TrainModel(self, file, <<cd>>, <<jitter>>)
                ELSE [self |-> self, file |-> file]
    IN  [self |-> lazy.self,
         file |-> lazy.file,
         ret |-> PredictBody(lazy.self.benchmarks, cd, jitter)]

(***************************************************************************)
(* The regressor-based variant, src/api/ml_model.py                        *)
(*                                                                         *)
(* The regressors, the scaler and the encoders are library objects: what   *)
(* a fitted regressor returns for a campaign (outputs, tenths of a         *)
(* percent) and whether a library call raises (lib_ok) are inputs.         *)
(***************************************************************************)
\* train: fewer campaigns than this is "Insufficient training data"
MlMinTrainingCampaigns == 5

MlOpenCeiling == 50

MlClickCeiling == 75

MlConversionCeiling == 100

\* pickle.dump / pickle.load of model_data
PickleDump(model_data) == <<"pickle", model_data>>

PickleLoad(bytes) == bytes[2]

\* save_model of the variant
MlSavedModel(self) == PickleDump([is_trained |-> self.is_trained, fitted |-> self.fitted])

\* train(campaigns_data), for a list of n campaigns
MlTrain(self, file, n, lib_ok) ==
    IF n < MlMinTrainingCampaigns
    THEN [self |-> self, file |-> file, raised |-> FALSE,
          ret |-> [error |-> "Insufficient training data"]]
    ELSE IF ~lib_ok
    THEN [self |-> self, file |-> file, raised |-> TRUE, ret |-> None]
    ELSE LET trained == [self EXCEPT !.is_trained = TRUE, !.fitted = TRUE]
         IN  [self |-> trained, file |-> MlSavedModel(trained), raised |-> FALSE,
              ret |-> [open_rate_mae |-> 0, click_rate_mae |-> 0, conversion_rate_mae |-> 0]]

\* load_model of the variant
MlLoadModel(self, file) ==
    IF file = NoFile THEN [self |-> self, ret |-> FALSE]
    ELSE LET model_data == PickleLoad(file)
         IN  [self |-> [self EXCEPT !.is_trained = model_data.is_trained,
                                    !.fitted = model_data.fitted],
              ret |-> TRUE]

rate_fields == {"open_rate", "click_rate", "conversion_rate"}

\* campaign_data['open_rate'] raises KeyError when the key is missing, and the
\* arithmetic on it raises TypeError when it is None
CurrentRaises(cd) == \E f \in rate_fields : f \notin DOMAIN cd \/ IsNone(cd[f])

\* current + improvement: the improvement added as percentage points
PredictedAdditive(current, improvement, half_up) == 10 * current + improvement \div 10

\* round(current * (1 + improvement / 100), 2) in hundredths; current in tenths,
\* improvement in thousandths of a percent.  When the decimal product ends in an
\* exact half, round() goes by the binary value of the float product, which is
\* just below or just above the half: half_up says which
Predicted(current, improvement, half_up) ==
    LET product == current * (100000 + improvement)
    IN  IF product % 10000 = 5000
        THEN product \div 10000 + (IF half_up THEN 1 ELSE 0)
        ELSE RoundDiv(product, 10000)

\* get_fallback_prediction, when it does not raise; the heuristics are in
\* thousandths of a percent, the improvements of the record in tenths
get_fallback_prediction(cd, half_up) ==
    LET current_open == cd["open_rate"][1]
        current_click == cd["click_rate"][1]
        current_conversion == cd["conversion_rate"][1]
        open_improvement == Max(10000, Min(40000, 45000 - 120 * current_open))
        click_improvement == Max(15000, Min(60000, 60000 - 1000 * current_click))
        conversion_improvement == Max(20000, Min(80000, 75000 - 2000 * current_conversion))
    IN  [open_rate_improvement_percent |-> RoundDiv(open_improvement, 100),
         click_rate_improvement_percent |-> RoundDiv(click_improvement, 100),
         conversion_rate_improvement_percent |-> RoundDiv(conversion_improvement, 100),
         predicted_open_rate |-> Predicted(current_open, open_improvement, half_up),
         predicted_click_rate |-> Predicted(current_click, click_improvement, half_up),
         predicted_conversion_rate |->
             Predicted(current_conversion, conversion_improvement, half_up),
         confidence |-> "Low"]

\* the try branch of the variant's predict_improvements
MlPrediction(self, cd, outputs, half_up) ==
    LET open_improvement == Max(OpenFloor * 10, Min(MlOpenCeiling * 10, outputs[1]))
        click_improvement == Max(ClickFloor * 10, Min(MlClickCeiling * 10, outputs[2]))
        conversion_improvement ==
            Max(ConversionFloor * 10, Min(MlConversionCeiling * 10, outputs[3]))
    IN  [open_rate_improvement_percent |-> open_improvement,
         click_rate_improvement_percent |-> click_improvement,
         conversion_rate_improvement_percent |-> conversion_improvement,
         predicted_open_rate |-> Predicted(cd["open_rate"][1], 100 * open_improvement, half_up),
         predicted_click_rate |->
             Predicted(cd["click_rate"][1], 100 * click_improvement, half_up),
         predicted_conversion_rate |->
             Predicted(cd["conversion_rate"][1], 100 * conversion_improvement, half_up),
         confidence |-> IF self.is_trained THEN "High" ELSE "Medium"]

\* get_fallback_prediction as the last statement of predict_improvements
MlFallback(self, cd, half_up) ==
    IF CurrentRaises(cd) THEN [self |-> self, raised |-> TRUE, ret |-> None]
    ELSE [self |-> self, raised |-> FALSE, ret |-> get_fallback_prediction(cd, half_up)]

\* predict_improvements of the variant
MlPredictImprovements(self, file, cd, outputs, lib_ok, half_up) ==
    LET loaded == IF ~self.is_trained THEN MlLoadModel(self, file)
                  ELSE [self |-> self, ret |-> TRUE]
    IN  IF ~loaded.ret THEN MlFallback(loaded.self, cd, half_up)
        ELSE IF ~lib_ok \/ ~loaded.self.fitted \/ CurrentRaises(cd)
        THEN MlFallback(loaded.self, cd, half_up)
        ELSE [self |-> loaded.self, raised |-> FALSE,
              ret |-> MlPrediction(loaded.self, cd, outputs, half_up)]

(***************************************************************************)
(* Inputs                                                                  *)
(***************************************************************************)
\* marks a key that the dict does not have
Absent == <<"absent", "absent">>

\* the dict with the keys of r that are not Absent
MkDict(r) == [k \in {f \in DOMAIN r : r[f] # Absent} |-> r[k]]

Campaign(es, o, c, v, ind, size) ==
    MkDict([emails_sent |-> es, open_rate |-> o, click_rate |-> c, conversion_rate |-> v,
            target_industry |-> ind, target_company_size |-> size])

EmailsSentValues == {Absent, Val(0), Val(500), Val(1000), Val(10000), Val(20000)}

OpenRateValues == {Absent, None, Val(58), Val(100), Val(220), Val(285), Val(1000)}

ClickRateValues == {Absent, Val(10), Val(35), Val(82)}

ConversionRateValues == {Absent, Val(0), Val(20), Val(31)}

IndustryValues == {Absent, None, Val("Unknown"), Val("E-commerce"), Val("Finance"),
                   Val("Retail")}

CompanySizeValues == {Absent, None, Val("Small (1-50)"), Val("Enterprise (1000+)")}

\* a CampaignData of the Campaign Service: every field is present, the
\* optional ones may be None
CampaignData(es, o, c, v, ind, size) ==
    [emails_sent |-> es, open_rate |-> o, click_rate |-> c, conversion_rate |-> v,
     target_market |-> None, target_age_range |-> None,
     target_industry |-> ind, target_company_size |-> size]

\* campaign.target_industry or 'Unknown': None and '' are falsy
OrUnknown(v) == IF IsNone(v) \/ v = Val("") THEN Val("Unknown") ELSE v

convert_campaign_for_ml(campaign) ==
    [k \in DOMAIN campaign \ {"campaign_name"} |->
        IF k \in {"target_market", "target_age_range", "target_industry", "target_company_size"}
        THEN OrUnknown(campaign[k])
        ELSE campaign[k]]

\* validated by the CampaignData model: emails_sent > 0, rates in [0, 100]
ServiceCampaigns ==
    {CampaignData(es, o, c, v, ind, size) :
        es \in {Val(500), Val(20000)}, o \in {Val(0), Val(100), Val(285), Val(1000)},
        c \in {Val(0), Val(10), Val(82)}, v \in {Val(0), Val(31)},
        ind \in {None, Val(""), Val("Retail"), Val("E-commerce")},
        size \in {None, Val("Small (1-50)")}}

\* every combination: the inputs of the single-call specification
CampaignInputs ==
    {Campaign(es, o, c, v, ind, size) :
        es \in EmailsSentValues, o \in OpenRateValues, c \in ClickRateValues,
        v \in ConversionRateValues, ind \in IndustryValues, size \in CompanySizeValues}

\* random.uniform(0.8, 1.2), (0.7, 1.3), (0.6, 1.4): hundredths
JitterDraws == {<<o, c, v>> : o \in {80, 100, 120}, c \in {70, 130}, v \in {60, 140}}

\* the variant's regressors are not given the categorical fields by this model
MlCampaignInputs ==
    {cd \in CampaignInputs : "target_industry" \notin DOMAIN cd /\ "target_company_size" \notin DOMAIN cd}

\* what the three fitted regressors return, tenths of a percent
RegressorOutputs == {<<0, 0, 0>>, <<123, 200, 300>>, <<470, 700, 900>>, <<2000, 2000, 2000>>}

\* the requests of the state machine: a few campaigns, every history
RequestInputs ==
    {Campaign(Val(5000), Val(285), Val(82), Val(31), Val("E-commerce"), None),
     Campaign(Absent, Val(100), Val(10), Val(5), Val("Retail"), Val("Small (1-50)")),
     Campaign(Val(20000), Absent, Val(35), Val(20), Absent, Absent),
     Campaign(Val(500), None, Val(10), Absent, Val("Technology"), Val("Unknown")),
     Campaign(Val(0), Val(0), Val(0), Val(0), None, Val("Enterprise (1000+)"))}

RequestJitter == {<<80, 70, 60>>, <<120, 130, 140>>}

\* the campaigns a training list is made of
TrainingCampaigns ==
    {Campaign(Val(5000), Val(285), Val(82), Val(31), Val("E-commerce"), None),
     Campaign(Val(800), Val(0), Val(10), Absent, Val("Retail"), Val("Small (1-50)")),
     Campaign(Val(1200), Val(150), None, Val(5), Absent, Absent)}

\* the longest training list of train_model
MaxCampaigns == 3

\* the longest training list of train
MlMaxCampaigns == 5

RECURSIVE SeqsOfLen(_, _)
SeqsOfLen(S, n) ==
    IF n = 0 THEN {<<>>}
    ELSE {Append(xs, x) : xs \in SeqsOfLen(S, n - 1), x \in S}

TrainingLists == UNION {SeqsOfLen(TrainingCampaigns, n) : n \in 0..MaxCampaigns}

\* the jitter drawn for each campaign of a training list of length n: the same
\* draw for all, or two draws in turn
TrainingDraws(n) ==
    {[i \in 1..n |-> j] : j \in RequestJitter}
        \cup {[i \in 1..n |-> IF i % 2 = 1 THEN <<80, 70, 60>> ELSE <<120, 130, 140>>]}

(***************************************************************************)
(* State machine                                                           *)
(***************************************************************************)
\* no database file email_campaigns.db
NoDb == <<>>

\* no request handler is running inside a method of the model
NoThreads == <<>>

\* the rule-based model object
Self == [is_trained |-> is_trained, historical_data |-> historical_data,
         model_stats |-> model_stats, benchmarks |-> benchmarks]

\* the variant's model object
MlSelf == [is_trained |-> is_trained, fitted |-> fitted]

\* __init__ of either class, no file at model_path
Init ==
    /\ variant \in {"simple", "sklearn"}
    /\ is_trained = FALSE
    /\ historical_data = <<>>
    /\ model_stats = Unset
    /\ benchmarks = InitBenchmarks
    /\ model_file = NoFile
    /\ fitted = FALSE
    /\ call = [op |-> "init"]
    /\ db = NoDb
    /\ threads = NoThreads

SetSelf(self) ==
    /\ is_trained' = self.is_trained
    /\ historical_data' = self.historical_data
    /\ model_stats' = self.model_stats
    /\ benchmarks' = self.benchmarks

SetMlSelf(self) ==
    /\ is_trained' = self.is_trained
    /\ fitted' = self.fitted

train_model ==
    /\ variant = "simple"
    /\ \E campaigns_data \in TrainingLists :
         \E draws \in TrainingDraws(Len(campaigns_data)) :
            LET r == TrainModel(Self, model_file, campaigns_data, draws)
            IN  /\ SetSelf(r.self)
                /\ model_file' = r.file
                /\ call' = [op |-> "train_model", campaigns_data |-> campaigns_data,
                            ret |-> r.ret, raised |-> FALSE]
    /\ UNCHANGED <<db, threads, variant, fitted>>

predict_improvements(cd, jitter, origin) ==
    /\ variant = "simple"
    /\ LET r == PredictImprovements(Self, model_file, cd, jitter)
       IN  /\ SetSelf(r.self)
           /\ model_file' = r.file
           /\ call' = [op |-> "predict_improvements", campaign_data |-> cd, jitter |-> jitter,
                       origin |-> origin, trained_before |-> is_trained,
                       gaps |-> IF NumericRaises(cd, rate_fields) THEN None
                                ELSE Gaps(r.self.benchmarks, cd),
                       confidence |-> IF NumericRaises(cd, required_fields) THEN None
                                      ELSE Val(calculate_confidence(cd)),
                       ret |-> r.ret, raised |-> FALSE]
    /\ UNCHANGED <<db, threads, variant, fitted>>

save_model ==
    /\ variant = "simple"
    /\ model_file' = SavedModel(Self)
    /\ call' = [op |-> "save_model", ret |-> None, raised |-> FALSE]
    /\ UNCHANGED <<db, threads, variant, is_trained, historical_data, model_stats, benchmarks, fitted>>

load_model ==
    /\ variant = "simple"
    /\ LET r == LoadModel(Self, model_file)
       IN  /\ SetSelf(r.self)
           /\ call' = [op |-> "load_model", trained_before |-> is_trained, ret |-> Val(r.ret),
                       raised |-> FALSE]
    /\ UNCHANGED <<db, threads, variant, model_file, fitted>>

train ==
    /\ variant = "sklearn"
    /\ \E n \in 0..MlMaxCampaigns, lib_ok \in BOOLEAN :
         LET r == MlTrain(MlSelf, model_file, n, lib_ok)
         IN  /\ SetMlSelf(r.self)
             /\ model_file' = r.file
             /\ call' = [op |-> "train", campaigns_count |-> n, ret |-> r.ret, raised |-> r.raised]
    /\ UNCHANGED <<db, threads, variant, historical_data, model_stats, benchmarks>>

ml_predict_improvements(cd, outputs, lib_ok, origin) ==
    /\ variant = "sklearn"
    /\ \E half_up \in BOOLEAN :
         LET r == MlPredictImprovements(MlSelf, model_file, cd, outputs, lib_ok, half_up)
         IN  /\ SetMlSelf(r.self)
             /\ call' = [op |-> "predict_improvements", campaign_data |-> cd,
                         outputs |-> outputs, lib_ok |-> lib_ok, origin |-> origin,
                         trained_before |-> is_trained, ret |-> r.ret, raised |-> r.raised]
    /\ UNCHANGED <<db, threads, variant, historical_data, model_stats, benchmarks, model_file>>

ml_save_model ==
    /\ variant = "sklearn"
    /\ model_file' = MlSavedModel(MlSelf)
    /\ call' = [op |-> "save_model", ret |-> None, raised |-> FALSE]
    /\ UNCHANGED <<db, threads, variant, is_trained, historical_data, model_stats, benchmarks, fitted>>

ml_load_model ==
    /\ variant = "sklearn"
    /\ LET r == MlLoadModel(MlSelf, model_file)
       IN  /\ SetMlSelf(r.self)
           /\ call' = [op |-> "load_model", ret |-> Val(r.ret), raised |-> FALSE]
    /\ UNCHANGED <<db, threads, variant, historical_data, model_stats, benchmarks, model_file>>

\* where the dict given to predict_improvements comes from: a caller's own
\* dict, or convert_campaign_for_ml of the Campaign Service
Direct == [via |-> "direct"]

Service(campaign) == [via |-> "service", campaign |-> campaign]

\* a request handler calls predict_improvements
predict_request ==
    \E cd \in RequestInputs, jitter \in RequestJitter : predict_improvements(cd, jitter, Direct)

ml_predict_request ==
    \E cd \in RequestInputs, outputs \in RegressorOutputs, lib_ok \in BOOLEAN :
        ml_predict_improvements(cd, outputs, lib_ok, Direct)

Next ==
    \/ train_model
    \/ predict_request
    \/ save_model
    \/ load_model
    \/ train
    \/ ml_predict_request
    \/ ml_save_model
    \/ ml_load_model

Spec == Init /\ [][Next]_vars

(***************************************************************************)
(* The same calls with the process restarted in between: the module is     *)
(* imported again, which makes a new model object; the model file stays.   *)
(***************************************************************************)
\* ml_model = EmailCampaignMLModel(), and in ml_model_simple.py
\* ml_model.load_model() after it
import_module ==
    /\ IF variant = "simple"
       THEN LET r == LoadModel([is_trained |-> FALSE, historical_data |-> <<>>,
                                model_stats |-> Unset, benchmarks |-> InitBenchmarks],
                               model_file)
            IN  /\ SetSelf(r.self)
                /\ call' = [op |-> "import_module", ret |-> Val(r.ret), raised |-> FALSE]
                /\ UNCHANGED fitted
       ELSE /\ SetMlSelf([is_trained |-> FALSE, fitted |-> FALSE])
            /\ call' = [op |-> "import_module", ret |-> None, raised |-> FALSE]
            /\ UNCHANGED <<historical_data, model_stats, benchmarks>>
    /\ UNCHANGED <<db, threads, variant, model_file>>

NextProcesses == Next \/ import_module

SpecProcesses == Init /\ [][NextProcesses]_vars

(***************************************************************************)
(* One call of predict_improvements on every input: the model object is    *)
(* fresh or trained, the request is drawn by the initial state.            *)
(***************************************************************************)
InitCall ==
    /\ variant \in {"simple", "sklearn"}
    /\ db = NoDb
    /\ threads = NoThreads
    /\ historical_data = <<>>
    /\ model_stats = Unset
    /\ benchmarks = InitBenchmarks
    /\ \/ /\ variant = "simple"
          /\ is_trained \in BOOLEAN
          /\ fitted = FALSE
          /\ model_file = NoFile
          /\ \/ \E cd \in CampaignInputs, jitter \in JitterDraws :
                   call = [op |-> "request", campaign_data |-> cd, jitter |-> jitter]
             \/ \E campaign \in ServiceCampaigns, jitter \in JitterDraws :
                   call = [op |-> "service_request", campaign |-> campaign, jitter |-> jitter]
       \/ /\ variant = "sklearn"
          /\ \/ is_trained = FALSE /\ fitted = FALSE /\ model_file = NoFile
             \/ /\ is_trained = TRUE
                /\ fitted = TRUE
                /\ model_file = MlSavedModel([is_trained |-> TRUE, fitted |-> TRUE])
          /\ \/ \E cd \in MlCampaignInputs, outputs \in RegressorOutputs, lib_ok \in BOOLEAN :
                   call = [op |-> "request", campaign_data |-> cd, outputs |-> outputs,
                           lib_ok |-> lib_ok]
             \/ \E campaign \in ServiceCampaigns, outputs \in RegressorOutputs :
                   call = [op |-> "service_request", campaign |-> campaign, outputs |-> outputs,
                           lib_ok |-> TRUE]

predict_pending ==
    /\ call.op = "request"
    /\ predict_improvements(call.campaign_data, call.jitter, Direct)

ml_predict_pending ==
    /\ call.op = "request"
    /\ ml_predict_improvements(call.campaign_data, call.outputs, call.lib_ok, Direct)

\* analyze_campaign_with_ai: campaign_ml_data = convert_campaign_for_ml(campaign);
\* ml_predictions = ml_model.predict_improvements(campaign_ml_data)
service_pending ==
    /\ call.op = "service_request"
    /\ predict_improvements(convert_campaign_for_ml(call.campaign), call.jitter,
                            Service(call.campaign))

ml_service_pending ==
    /\ call.op = "service_request"
    /\ ml_predict_improvements(convert_campaign_for_ml(call.campaign), call.outputs, call.lib_ok,
                               Service(call.campaign))

NextCall == predict_pending \/ ml_predict_pending \/ service_pending \/ ml_service_pending

SpecCall == InitCall /\ [][NextCall]_vars

(***************************************************************************)
(* The Campaign Service, src/backend: the table campaigns of               *)
(* email_campaigns.db, the endpoints of main.py and migrate_db.py.         *)
(*                                                                         *)
(* db is NoDb or [columns, rows]: the columns of the table and its rows,   *)
(* each row a function of the columns.  A campaign_id (a uuid4 string in   *)
(* the code) is the number of the row, and so is analyzed_at, the time of  *)
(* the analysis.  The reads of the database succeed unless they name a     *)
(* column the table does not have; the session of a save can raise at its  *)
(* commit or at its refresh as well.                                       *)
(***************************************************************************)
\* migrate_database: new_columns, in the order they are added
new_columns == <<"target_market", "target_age_range", "target_industry", "target_company_size">>

\* the columns of a table created before the target market was added
legacy_columns ==
    {"id", "campaign_name", "emails_sent", "open_rate", "click_rate", "conversion_rate",
     "weak_spots", "ai_suggestions", "estimated_improvement", "analyzed_at"}

\* class CampaignDB
CampaignDB == legacy_columns \cup {new_columns[i] : i \in 1..Len(new_columns)}

\* create_tables: create_all makes the table when there is none and leaves an
\* existing table as it is
create_tables(database) ==
    IF database = NoDb THEN [columns |-> CampaignDB, rows |-> <<>>] ELSE database

\* ALTER TABLE campaigns ADD COLUMN column TEXT: the rows get NULL in it
AddColumn(database, column) ==
    [columns |-> database.columns \cup {column},
     rows |-> [i \in 1..Len(database.rows) |->
                  [c \in database.columns \cup {column} |->
                      IF c \in database.columns THEN database.rows[i][c] ELSE None]]]

RECURSIVE AddColumns(_, _)
AddColumns(database, columns_to_add) ==
    IF columns_to_add = <<>> THEN database
    ELSE AddColumns(AddColumn(database, Head(columns_to_add)), Tail(columns_to_add))

\* the table made anew with all the columns, its rows gone
MigrateByRecreating(database) ==
    IF database = NoDb THEN [db |-> database, added |-> <<>>]
    ELSE LET columns_to_add == SelectSeq(new_columns, LAMBDA col : col \notin database.columns)
         IN  [db |-> IF columns_to_add = <<>> THEN database
                     ELSE [columns |-> CampaignDB, rows |-> <<>>],
              added |-> columns_to_add]

\* migrate_database: the database afterwards and columns_to_add
MigrateDatabase(database) ==
    IF database = NoDb THEN [db |-> database, added |-> <<>>]
    ELSE LET columns_to_add == SelectSeq(new_columns, LAMBDA col : col \notin database.columns)
         IN  [db |-> AddColumns(database, columns_to_add), added |-> columns_to_add]

\* analyze_campaign: the threshold checks
WeakSpots(campaign) ==
    LET found == (IF campaign.open_rate[1] < 200 THEN <<"Low open rate">> ELSE <<>>)
                 \o (IF campaign.click_rate[1] < 30 THEN <<"Low click-through rate">> ELSE <<>>)
                 \o (IF campaign.conversion_rate[1] < 20 THEN <<"Low conversion rate">> ELSE <<>>)
    IN  IF found = <<>> THEN <<"No major issues detected">> ELSE found

InSeq(x, xs) == \E i \in 1..Len(xs) : xs[i] = x

\* get_fallback_suggestions: four suggestions for each weak spot, the first of
\* them quoting the campaign's rate; a suggestion is the tuple of its text and
\* of the values formatted into it
get_fallback_suggestions(campaign, weak_spots) ==
    LET suggestions ==
            (IF InSeq("Low open rate", weak_spots)
             THEN <<<<"A/B test subject lines", campaign.open_rate>>, <<"Optimize send timing">>,
                    <<"Personalize subject lines">>, <<"Clean your email list">>>>
             ELSE <<>>)
            \o (IF InSeq("Low click-through rate", weak_spots)
                THEN <<<<"Redesign your CTA buttons", campaign.click_rate>>,
                       <<"Use action-oriented language">>, <<"Reduce email content length">>,
                       <<"Add compelling visuals">>>>
                ELSE <<>>)
            \o (IF InSeq("Low conversion rate", weak_spots)
                THEN <<<<"Optimize landing page", campaign.conversion_rate>>, <<"Add social proof">>,
                       <<"Simplify your conversion process">>, <<"Ensure strong message match">>>>
                ELSE <<>>)
    IN  IF suggestions = <<>> THEN <<<<"Your campaign shows solid performance!">>>>
        ELSE suggestions

\* what the call of the language model comes to: no OPENAI_API_KEY, an
\* exception of the API call, or the lines of the reply
NoApiKey == [kind |-> "no_key", lines |-> <<>>]

ApiError == [kind |-> "api_error", lines |-> <<>>]

Reply(lines) == [kind |-> "reply", lines |-> lines]

\* a stripped line of the reply: whether it begins with a digit, '-' or the
\* bullet, and what is left of it once the numbering is stripped
Line(listed, text) == [listed |-> listed, text |-> text]

\* the lines that are list items and are not empty without their numbering
ParseReply(lines) ==
    LET items == SelectSeq(lines, LAMBDA line : line.listed /\ line.text # "")
    IN  [i \in 1..Len(items) |-> <<items[i].text>>]

\* generate_ai_suggestions returning the parsed list even when it is empty
generate_ai_suggestions_unchecked(campaign, weak_spots, reply) ==
    IF reply.kind = "no_key" THEN get_fallback_suggestions(campaign, weak_spots)
    ELSE IF reply.kind = "api_error" THEN get_fallback_suggestions(campaign, weak_spots)
    ELSE ParseReply(reply.lines)

\* generate_ai_suggestions
generate_ai_suggestions(campaign, weak_spots, reply) ==
    IF reply.kind = "no_key" THEN get_fallback_suggestions(campaign, weak_spots)
    ELSE IF reply.kind = "api_error" THEN get_fallback_suggestions(campaign, weak_spots)
    ELSE LET suggestions == ParseReply(reply.lines)
         IN  IF suggestions # <<>> THEN suggestions
             ELSE get_fallback_suggestions(campaign, weak_spots)

\* the threshold checks with the bounds included: <= 20, <= 3, <= 2
WeakSpotsInclusive(campaign) ==
    LET found == (IF campaign.open_rate[1] <= 200 THEN <<"Low open rate">> ELSE <<>>)
                 \o (IF campaign.click_rate[1] <= 30 THEN <<"Low click-through rate">> ELSE <<>>)
                 \o (IF campaign.conversion_rate[1] <= 20 THEN <<"Low conversion rate">> ELSE <<>>)
    IN  IF found = <<>> THEN <<"No major issues detected">> ELSE found

\* analyze_campaign_with_ai: its own copy of the threshold checks
WeakSpotsWithAi(campaign) ==
    LET found == (IF campaign.open_rate[1] < 200 THEN <<"Low open rate">> ELSE <<>>)
                 \o (IF campaign.click_rate[1] < 30 THEN <<"Low click-through rate">> ELSE <<>>)
                 \o (IF campaign.conversion_rate[1] < 20 THEN <<"Low conversion rate">> ELSE <<>>)
    IN  IF found = <<>> THEN <<"No major issues detected">> ELSE found

\* analyze_campaign: the analysis without the engine and without the API
AnalyzeCampaign(campaign, campaign_id, now) ==
    LET weak_spots == WeakSpots(campaign)
    IN  [campaign_id |-> campaign_id,
         campaign_data |-> campaign,
         weak_spots |-> weak_spots,
         ai_suggestions |-> get_fallback_suggestions(campaign, weak_spots),
         estimated_improvement |-> <<"5-15% improvement possible with suggested changes">>,
         ml_prediction |-> None,
         analyzed_at |-> now]

\* analyze_campaign_with_ai once ml_model.predict_improvements has returned
\* ml_predictions
AnalyzeCampaignWithAi(campaign, ml_predictions, reply, campaign_id, now) ==
    LET weak_spots == WeakSpotsWithAi(campaign)
        high == "confidence" \in DOMAIN ml_predictions /\ ml_predictions.confidence = "High"
    IN  [campaign_id |-> campaign_id,
         campaign_data |-> campaign,
         weak_spots |-> weak_spots,
         ai_suggestions |-> generate_ai_suggestions(campaign, weak_spots, reply),
         estimated_improvement |->
             IF high
             THEN <<"ML prediction: Open rate, Click rate",
                    ml_predictions.predicted_open_rate,
                    ml_predictions.open_rate_improvement_percent,
                    ml_predictions.predicted_click_rate,
                    ml_predictions.click_rate_improvement_percent>>
             ELSE <<"5-25% improvement possible with AI-optimized changes">>,
         ml_prediction |-> Val(ml_predictions),
         analyzed_at |-> now]

\* a statement naming every column of CampaignDB fails on a table without them
HasColumns(database) == CampaignDB \subseteq database.columns

\* save_campaign_to_db: the row of the analysis; ml_prediction has no column
CampaignRow(analysis) ==
    [c \in CampaignDB |->
        CASE c = "id" -> analysis.campaign_id
          [] c = "weak_spots" -> JsonDump(analysis.weak_spots)
          [] c = "ai_suggestions" -> JsonDump(analysis.ai_suggestions)
          [] c = "estimated_improvement" -> analysis.estimated_improvement
          [] c = "analyzed_at" -> analysis.analyzed_at
          [] OTHER -> analysis.campaign_data[c]]

\* the steps of save_campaign_to_db at which the session can raise although
\* the table has every column
SaveFaults == {"none", "commit", "refresh"}

\* db.add, db.commit, db.refresh.  The INSERT of commit fails on a table
\* without the columns; a failed commit is rolled back and stores nothing; a
\* failed refresh comes after the commit and leaves the row stored
save_campaign_to_db(database, analysis, fault) ==
    IF ~HasColumns(database) \/ fault = "commit" THEN [db |-> database, raised |-> TRUE]
    ELSE [db |-> [database EXCEPT !.rows = Append(@, CampaignRow(analysis))],
          raised |-> fault = "refresh"]

campaign_data_fields ==
    {"campaign_name", "emails_sent", "open_rate", "click_rate", "conversion_rate",
     "target_market", "target_age_range", "target_industry", "target_company_size"}

\* the CampaignAnalysis that get_campaign_from_db and get_campaigns_from_db
\* build from a row: ml_prediction is not given and takes its default
RowToAnalysis(campaign) ==
    [campaign_id |-> campaign["id"],
     campaign_data |-> [f \in campaign_data_fields |-> campaign[f]],
     weak_spots |-> JsonLoad(campaign["weak_spots"]),
     ai_suggestions |-> JsonLoad(campaign["ai_suggestions"]),
     estimated_improvement |-> campaign["estimated_improvement"],
     ml_prediction |-> None,
     analyzed_at |-> campaign["analyzed_at"]]

\* get_campaign_from_db: None when no row has the id
get_campaign_from_db(database, campaign_id) ==
    IF ~HasColumns(database) THEN [raised |-> TRUE, ret |-> None]
    ELSE LET found == SelectSeq(database.rows, LAMBDA row : row["id"] = campaign_id)
         IN  [raised |-> FALSE,
              ret |-> IF found = <<>> THEN None ELSE Val(RowToAnalysis(Head(found)))]

\* get_campaigns_from_db: order_by(analyzed_at.desc()); the rows are in the
\* order of their analyzed_at
get_campaigns_from_db(database) ==
    IF ~HasColumns(database) THEN [raised |-> TRUE, ret |-> None]
    ELSE [raised |-> FALSE,
          ret |-> Val([i \in 1..Len(database.rows) |->
                          RowToAnalysis(database.rows[Len(database.rows) + 1 - i])])]

\* train_ml_model_with_database: fewer campaigns than this are not enough
ServiceMinCampaigns == 3

train_ml_model_with_database(self, file, database, lib_ok) ==
    IF ~HasColumns(database) THEN [self |-> self, file |-> file, raised |-> TRUE, ret |-> None]
    ELSE IF Len(database.rows) < ServiceMinCampaigns
    THEN [self |-> self, file |-> file, raised |-> FALSE,
          ret |-> [message |-> "Not enough campaigns to train ML model",
                   campaigns_count |-> Len(database.rows)]]
    ELSE LET trained == MlTrain(self, file, Len(database.rows), lib_ok)
         IN  [self |-> trained.self, file |-> trained.file, raised |-> trained.raised,
              ret |-> IF trained.raised THEN None
                      ELSE [message |-> "ML model trained successfully",
                            metrics |-> trained.ret,
                            campaigns_count |-> Len(database.rows)]]

\* the endpoint answering with the fallback analysis without storing it
AnalyzeCampaignEndpointUnsaved(self, file, database, campaign, reply, engine_fault, outputs, lib_ok, half_up, faults) ==
    LET campaign_id == Len(database.rows) + 1
        predicted ==
            IF engine_fault THEN [self |-> self, raised |-> TRUE, ret |-> None]
            ELSE MlPredictImprovements(self, file, convert_campaign_for_ml(campaign), outputs,
                                       lib_ok, half_up)
        with_ai == AnalyzeCampaignWithAi(campaign, predicted.ret, reply, campaign_id, campaign_id)
        saved == IF predicted.raised THEN [db |-> database, raised |-> TRUE]
                 ELSE save_campaign_to_db(database, with_ai, faults[1])
        fallback_id == Len(saved.db.rows) + 1
        fallback == AnalyzeCampaign(campaign, fallback_id, fallback_id)
    IN  IF ~saved.raised
        THEN [self |-> predicted.self, db |-> saved.db, status |-> 200,
              response |-> Val(with_ai), fallback |-> FALSE]
        ELSE IF HasColumns(database) /\ faults[2] = "none"
        THEN [self |-> predicted.self, db |-> saved.db, status |-> 200,
              response |-> Val(fallback), fallback |-> TRUE]
        ELSE [self |-> predicted.self, db |-> saved.db, status |-> 500,
              response |-> None, fallback |-> TRUE]

\* POST /analyze-campaign.  engine_fault: ml_model.predict_improvements is cut
\* short by an exception that none of its own handlers catches.  faults: the
\* step at which the save of the try block and the save of the except block
\* raise.  The except block runs on the session as the try block left it, so
\* a row committed before a failed refresh is still in the table.  The ids
\* are uuid4 values, modelled by the next free number of the table
AnalyzeCampaignEndpoint(self, file, database, campaign, reply, engine_fault, outputs, lib_ok, half_up, faults) ==
    LET campaign_id == Len(database.rows) + 1
        predicted ==
            IF engine_fault THEN [self |-> self, raised |-> TRUE, ret |-> None]
            ELSE MlPredictImprovements(self, file, convert_campaign_for_ml(campaign), outputs,
                                       lib_ok, half_up)
        with_ai == AnalyzeCampaignWithAi(campaign, predicted.ret, reply, campaign_id, campaign_id)
        saved == IF predicted.raised THEN [db |-> database, raised |-> TRUE]
                 ELSE save_campaign_to_db(database, with_ai, faults[1])
        fallback_id == Len(saved.db.rows) + 1
        fallback == AnalyzeCampaign(campaign, fallback_id, fallback_id)
        saved_fallback == save_campaign_to_db(saved.db, fallback, faults[2])
    IN  IF ~saved.raised
        THEN [self |-> predicted.self, db |-> saved.db, status |-> 200,
              response |-> Val(with_ai), fallback |-> FALSE]
        ELSE IF ~saved_fallback.raised
        THEN [self |-> predicted.self, db |-> saved_fallback.db, status |-> 200,
              response |-> Val(fallback), fallback |-> TRUE]
        ELSE [self |-> predicted.self, db |-> saved_fallback.db, status |-> 500,
              response |-> None, fallback |-> TRUE]

\* the request bodies of POST /analyze-campaign
Named(campaign_name, campaign) ==
    [k \in DOMAIN campaign \cup {"campaign_name"} |->
        IF k = "campaign_name" THEN campaign_name ELSE campaign[k]]

AnalyzeRequests ==
    {Named(Val("Spring Sale"),
           CampaignData(Val(5000), Val(285), Val(82), Val(31), Val("E-commerce"), None)),
     Named(Val("Welcome"),
           CampaignData(Val(500), Val(100), Val(10), Val(0), None, Val("Small (1-50)")))}

\* the language model as the requests of the state machine meet it
AiReplies ==
    {NoApiKey,
     Reply(<<Line(TRUE, "Segment the list by engagement"), Line(FALSE, "Good luck!"),
             Line(TRUE, "Shorten the subject line")>>)}

AnalyzeOutputs == {<<123, 200, 300>>, <<2000, 2000, 2000>>}

\* a row written by a release that had no target market fields, as it is in a
\* table of the given columns
LegacyCampaign ==
    Named(Val("Legacy"), CampaignData(Val(1000), Val(150), Val(20), Val(10), None, None))

LegacyRow(i, columns) ==
    [c \in columns |-> CampaignRow(AnalyzeCampaign(LegacyCampaign, i, i))[c]]

LegacyTable(columns, n) == [columns |-> columns, rows |-> [i \in 1..n |-> LegacyRow(i, columns)]]

\* the tables a deployment may start with: made by an earlier release, by an
\* interrupted migration, or by this release
Schemas ==
    {legacy_columns, legacy_columns \cup {"target_market", "target_age_range"}, CampaignDB}

\* the rows in a table at the start
LegacyCounts == {0, 2, 4}

\* the analyses stored by the service on top of them
MaxAnalyses == 2

Analyses(database) ==
    Len(SelectSeq(database.rows, LAMBDA row : row["campaign_name"] # Val("Legacy")))

\* the process has not been started; the file may be there from earlier runs
InitService ==
    /\ variant = "sklearn"
    /\ is_trained = FALSE
    /\ fitted = FALSE
    /\ historical_data = <<>>
    /\ model_stats = Unset
    /\ benchmarks = InitBenchmarks
    /\ model_file = NoFile
    /\ call = [op |-> "init"]
    /\ threads = NoThreads
    /\ db \in {NoDb} \cup {LegacyTable(columns, n) : columns \in Schemas, n \in LegacyCounts}

\* the process starts: ml_model = EmailCampaignMLModel(), create_tables(), then
\* startup_event, which swallows every exception of the training
startup ==
    /\ \E lib_ok \in BOOLEAN :
         LET fresh == [is_trained |-> FALSE, fitted |-> FALSE]
             created == create_tables(db)
             r == train_ml_model_with_database(fresh, model_file, created, lib_ok)
         IN  /\ SetMlSelf(r.self)
             /\ model_file' = r.file
             /\ db' = created
             /\ call' = [op |-> "startup", raised |-> FALSE]
    /\ UNCHANGED <<threads, variant, historical_data, model_stats, benchmarks>>

analyze_campaign_endpoint ==
    /\ db # NoDb
    /\ Analyses(db) < MaxAnalyses
    /\ \E campaign \in AnalyzeRequests, reply \in AiReplies, engine_fault \in BOOLEAN,
          outputs \in AnalyzeOutputs, lib_ok \in BOOLEAN, half_up \in BOOLEAN,
          faults \in SaveFaults \X SaveFaults :
         LET r == AnalyzeCampaignEndpoint(MlSelf, model_file, db, campaign, reply, engine_fault,
                                          outputs, lib_ok, half_up, faults)
         IN  /\ SetMlSelf(r.self)
             /\ db' = r.db
             /\ call' = [op |-> "analyze_campaign_endpoint", campaign |-> campaign,
                         engine_fault |-> engine_fault, faults |-> faults,
                         rows_before |-> db.rows, status |-> r.status,
                         response |-> r.response, fallback |-> r.fallback]
    /\ UNCHANGED <<threads, variant, historical_data, model_stats, benchmarks, model_file>>

\* GET /campaigns/{campaign_id}
get_campaign ==
    /\ db # NoDb
    /\ \E campaign_id \in 1..(Len(db.rows) + 1) :
         LET r == get_campaign_from_db(db, campaign_id)
         IN  call' = [op |-> "get_campaign", campaign_id |-> campaign_id,
                      status |-> IF r.raised THEN 500 ELSE IF IsNone(r.ret) THEN 404 ELSE 200,
                      response |-> r.ret]
    /\ UNCHANGED <<db, threads, variant, is_trained, historical_data, model_stats, benchmarks,
                   model_file, fitted>>

\* GET /campaigns
get_all_campaigns ==
    /\ db # NoDb
    /\ LET r == get_campaigns_from_db(db)
       IN  call' = [op |-> "get_all_campaigns", status |-> IF r.raised THEN 500 ELSE 200,
                    response |-> r.ret]
    /\ UNCHANGED <<db, threads, variant, is_trained, historical_data, model_stats, benchmarks,
                   model_file, fitted>>

\* POST /train-ml-model
train_ml_model_endpoint ==
    /\ db # NoDb
    /\ \E lib_ok \in BOOLEAN :
         LET r == train_ml_model_with_database(MlSelf, model_file, db, lib_ok)
         IN  /\ SetMlSelf(r.self)
             /\ model_file' = r.file
             /\ call' = [op |-> "train_ml_model_endpoint",
                         status |-> IF r.raised THEN 500 ELSE 200, response |-> r.ret]
    /\ UNCHANGED <<db, threads, variant, historical_data, model_stats, benchmarks>>

\* python migrate_db.py
migrate_database ==
    /\ LET r == MigrateDatabase(db)
       IN  /\ db' = r.db
           /\ call' = [op |-> "migrate_database", before |-> db, added |-> r.added]
    /\ UNCHANGED <<threads, variant, is_trained, historical_data, model_stats, benchmarks,
                   model_file, fitted>>

NextService ==
    \/ startup
    \/ analyze_campaign_endpoint
    \/ get_campaign
    \/ get_all_campaigns
    \/ train_ml_model_endpoint
    \/ migrate_database

SpecService == InitService /\ [][NextService]_vars

(***************************************************************************)
(* One analysis of every campaign around the thresholds, by either         *)
(* analyzer: the campaign and what the language model does are drawn by    *)
(* the initial state.                                                      *)
(***************************************************************************)
AnalysisCampaigns ==
    {Named(Val("Drip"), CampaignData(Val(1000), o, c, v, None, None)) :
        o \in {Val(0), Val(199), Val(200), Val(285)},
        c \in {Val(0), Val(29), Val(30), Val(82)},
        v \in {Val(0), Val(19), Val(20), Val(31)}}

AnalysisReplies ==
    {NoApiKey, ApiError, Reply(<<>>),
     Reply(<<Line(FALSE, "Here is what I would do:"), Line(TRUE, ""), Line(FALSE, "Good luck!")>>),
     Reply(<<Line(FALSE, "Here is what I would do:"), Line(TRUE, "Segment the list by engagement"),
             Line(TRUE, ""), Line(TRUE, "Shorten the subject line")>>)}

InitAnalyze ==
    /\ variant = "sklearn"
    /\ is_trained = FALSE
    /\ fitted = FALSE
    /\ historical_data = <<>>
    /\ model_stats = Unset
    /\ benchmarks = InitBenchmarks
    /\ model_file = NoFile
    /\ db = NoDb
    /\ threads = NoThreads
    /\ \E campaign \in AnalysisCampaigns, reply \in AnalysisReplies :
         call = [op |-> "analysis_request", campaign |-> campaign, reply |-> reply]

\* analyze_campaign_with_ai(campaign)
analyze_campaign_with_ai_pending ==
    /\ call.op = "analysis_request"
    /\ \E outputs \in AnalyzeOutputs, half_up \in BOOLEAN :
         LET r == MlPredictImprovements(MlSelf, model_file, convert_campaign_for_ml(call.campaign),
                                        outputs, TRUE, half_up)
         IN  /\ SetMlSelf(r.self)
             /\ call' = [op |-> "analyze_campaign_with_ai", campaign |-> call.campaign,
                         reply |-> call.reply,
                         analysis |-> AnalyzeCampaignWithAi(call.campaign, r.ret, call.reply, 1, 1)]
    /\ UNCHANGED <<db, threads, variant, historical_data, model_stats, benchmarks, model_file>>

\* analyze_campaign(campaign)
analyze_campaign_pending ==
    /\ call.op = "analysis_request"
    /\ call' = [op |-> "analyze_campaign", campaign |-> call.campaign, reply |-> call.reply,
                analysis |-> AnalyzeCampaign(call.campaign, 1, 1)]
    /\ UNCHANGED <<db, threads, variant, is_trained, historical_data, model_stats, benchmarks,
                   model_file, fitted>>

NextAnalyze == analyze_campaign_with_ai_pending \/ analyze_campaign_pending

SpecAnalyze == InitAnalyze /\ [][NextAnalyze]_vars

(***************************************************************************)
(* Request handlers running in threads on the global ml_model of           *)
(* ml_model_simple.py.  The code takes no lock, so a handler can be        *)
(* preempted between two statements of train_model or save_model; threads  *)
(* maps each handler to where it is and to its local variables.            *)
(***************************************************************************)
MaxHandlers == 2

Handlers == 1..MaxHandlers

\* a handler outside the methods of the model
Idle == [pc |-> "idle", campaigns_data |-> <<>>, improvements |-> <<>>, model_data |-> <<>>]

\* the calls of train_model made by the handlers: campaigns_data and the jitter
\* drawn for each campaign
TrainingJobs ==
    LET shop == Campaign(Val(5000), Val(285), Val(82), Val(31), Val("E-commerce"), None)
        store == Campaign(Val(800), Val(100), Val(10), Val(5), Val("Retail"), Val("Small (1-50)"))
        broken == Campaign(Val(1200), Val(150), None, Val(5), Absent, Absent)
    IN  {[campaigns_data |-> <<shop>>, draws |-> [i \in 1..1 |-> <<80, 70, 60>>]],
         [campaigns_data |-> <<shop, store, broken>>, draws |-> [i \in 1..3 |-> <<80, 70, 60>>]],
         [campaigns_data |-> <<shop, store, shop>>, draws |-> [i \in 1..3 |-> <<80, 70, 60>>]],
         [campaigns_data |-> <<store, store, shop, store>>,
          draws |-> [i \in 1..4 |-> <<120, 130, 140>>]]}

\* model_stats as train_model computes it from improvements
ModelStats(improvements) ==
    [m \in {"open_rate", "click_rate", "conversion_rate"} |->
        Stats([i \in 1..Len(improvements) |-> improvements[i][m]])]

InitThreads ==
    /\ variant = "simple"
    /\ is_trained = FALSE
    /\ historical_data = <<>>
    /\ model_stats = Unset
    /\ benchmarks = InitBenchmarks
    /\ model_file = NoFile
    /\ fitted = FALSE
    /\ call = [op |-> "init"]
    /\ db = NoDb
    /\ threads = [t \in Handlers |-> Idle]

Step(t, name) == call' = [op |-> name, handler |-> t]

\* train_model, lines 100-107: the short list and the exception both end the
\* call with is_trained = True; otherwise features and improvements are local
th_train_model(t) ==
    /\ threads[t].pc = "idle"
    /\ \E job \in TrainingJobs :
         IF \/ Len(job.campaigns_data) < MinTrainingCampaigns
            \/ \E i \in 1..Len(job.campaigns_data) :
                   NumericRaises(job.campaigns_data[i], {"open_rate", "click_rate", "conversion_rate"})
         THEN /\ is_trained' = TRUE
              /\ UNCHANGED threads
         ELSE /\ threads' = [threads EXCEPT ![t] =
                     [pc |-> "line 110", campaigns_data |-> job.campaigns_data,
                      improvements |->
                          create_synthetic_improvement_data(benchmarks, job.campaigns_data, job.draws),
                      model_data |-> <<>>]]
              /\ UNCHANGED is_trained
    /\ Step(t, "train_model")
    /\ UNCHANGED <<db, variant, historical_data, model_stats, benchmarks, model_file, fitted>>

\* line 110: self.historical_data = features
th_historical_data(t) ==
    /\ threads[t].pc = "line 110"
    /\ historical_data' = prepare_features(threads[t].campaigns_data)
    /\ threads' = [threads EXCEPT ![t].pc = "line 118"]
    /\ Step(t, "historical_data")
    /\ UNCHANGED <<db, variant, is_trained, model_stats, benchmarks, model_file, fitted>>

\* lines 118-137: self.model_stats = {...}
th_model_stats(t) ==
    /\ threads[t].pc = "line 118"
    /\ model_stats' = <<ModelStats(threads[t].improvements)>>
    /\ threads' = [threads EXCEPT ![t].pc = "line 139"]
    /\ Step(t, "model_stats")
    /\ UNCHANGED <<db, variant, is_trained, historical_data, benchmarks, model_file, fitted>>

\* line 139: self.is_trained = True; line 142 calls save_model
th_is_trained(t) ==
    /\ threads[t].pc = "line 139"
    /\ is_trained' = TRUE
    /\ threads' = [threads EXCEPT ![t].pc = "line 253"]
    /\ Step(t, "is_trained")
    /\ UNCHANGED <<db, variant, historical_data, model_stats, benchmarks, model_file, fitted>>

\* a handler calls save_model itself
th_save_model(t) ==
    /\ threads[t].pc = "idle"
    /\ threads' = [threads EXCEPT ![t].pc = "line 253"]
    /\ Step(t, "save_model")
    /\ UNCHANGED <<db, variant, is_trained, historical_data, model_stats, benchmarks, model_file,
                   fitted>>

\* save_model, lines 253-256: the first three values of model_data are read
th_read_model(t) ==
    /\ threads[t].pc = "line 253"
    /\ threads' = [threads EXCEPT ![t].pc = "line 257",
                                  ![t].model_data =
                                      [is_trained |-> is_trained, benchmarks |-> benchmarks,
                                       model_stats |-> IF model_stats = Unset THEN EmptyDict
                                                       ELSE model_stats[1]]]
    /\ Step(t, "read_model")
    /\ UNCHANGED <<db, variant, is_trained, historical_data, model_stats, benchmarks, model_file,
                   fitted>>

\* lines 257-261: len(self.historical_data) is read and the file is written;
\* save_model returns, and so does train_model when it was the caller
th_write_model(t) ==
    /\ threads[t].pc = "line 257"
    /\ model_file' = JsonDump([is_trained |-> threads[t].model_data.is_trained,
                               benchmarks |-> threads[t].model_data.benchmarks,
                               model_stats |-> threads[t].model_data.model_stats,
                               historical_data_count |-> Len(historical_data)])
    /\ threads' = [threads EXCEPT ![t] = Idle]
    /\ Step(t, "write_model")
    /\ UNCHANGED <<db, variant, is_trained, historical_data, model_stats, benchmarks, fitted>>

\* predict_improvements, which reads is_trained and benchmarks only
th_predict_improvements(t) ==
    /\ threads[t].pc = "idle"
    /\ \E cd \in RequestInputs, jitter \in RequestJitter :
         LET r == PredictImprovements(Self, model_file, cd, jitter)
         IN  /\ SetSelf(r.self)
             /\ model_file' = r.file
    /\ Step(t, "predict_improvements")
    /\ UNCHANGED <<db, threads, variant, fitted>>

NextThreads ==
    \E t \in Handlers :
        \/ th_train_model(t)
        \/ th_historical_data(t)
        \/ th_model_stats(t)
        \/ th_is_trained(t)
        \/ th_save_model(t)
        \/ th_read_model(t)
        \/ th_write_model(t)
        \/ th_predict_improvements(t)

SpecThreads == InitThreads /\ [][NextThreads]_vars

(***************************************************************************)
(* Claims                                                                  *)
(***************************************************************************)
\* predict_improvements has returned a record
Returned == call.op = "predict_improvements" /\ ~call.raised

RuleReturned == variant = "simple" /\ Returned

MlReturned == variant = "sklearn" /\ Returned

\* every numeric field is a number or missing
WellFormed(cd) == ~NumericRaises(cd, required_fields)

\* emails_sent > 0 and each rate in [0, 100]
ValidInput(cd) ==
    /\ \A f \in required_fields : f \in DOMAIN cd /\ ~IsNone(cd[f])
    /\ cd["emails_sent"][1] > 0
    /\ \A f \in rate_fields : cd[f][1] >= 0 /\ cd[f][1] <= 1000

Within(x, floor, ceiling) == x >= floor * 10 /\ x <= ceiling * 10

\* the three improvement percentages of a returned record, whatever the engine
ImprovementsOf(ret) ==
    IF "open_rate_improvement" \in DOMAIN ret
    THEN <<ret.open_rate_improvement, ret.click_rate_improvement, ret.conversion_rate_improvement>>
    ELSE <<ret.open_rate_improvement_percent, ret.click_rate_improvement_percent,
           ret.conversion_rate_improvement_percent>>

C2_ConfidenceInRange ==
    RuleReturned => call.ret.confidence_score >= 30 /\ call.ret.confidence_score <= 95

\* no required field is present and positive, and the lower clamp decides
C2_Witness ==
    /\ RuleReturned
    /\ WellFormed(call.campaign_data)
    /\ Completeness(call.campaign_data) = 0
    /\ call.ret.prediction_method = "rule_based_with_statistics"
    /\ call.ret.confidence_score = 30

AtOrAboveBenchmarks(cd) == \A m \in rate_fields : cd[m][1] >= InitBenchmarks[m]

\* C3: for every valid input with all three rates at or above their benchmark,
\* every gap is 0 and each improvement is at least its floor and never 0
C3_FloorAtOrAboveBenchmark ==
    (RuleReturned /\ ValidInput(call.campaign_data) /\ AtOrAboveBenchmarks(call.campaign_data)) =>
        /\ \A m \in rate_fields : call.gaps[m] = 0
        /\ call.ret.open_rate_improvement >= OpenFloor * 10
        /\ call.ret.click_rate_improvement >= ClickFloor * 10
        /\ call.ret.conversion_rate_improvement >= ConversionFloor * 10
        /\ \A i \in 1..3 : ImprovementsOf(call.ret)[i] # 0

\* rates exactly at the benchmarks, the smallest jitter: the floors are returned
C3_Witness ==
    /\ RuleReturned
    /\ ValidInput(call.campaign_data)
    /\ \A m \in rate_fields : call.campaign_data[m][1] = InitBenchmarks[m]
    /\ call.jitter = <<80, 70, 60>>
    /\ ImprovementsOf(call.ret) = <<OpenFloor * 10, ClickFloor * 10, ConversionFloor * 10>>

\* the dict with d[key] = value
With(d, key, value) == [k \in DOMAIN d \cup {key} |-> IF k = key THEN value ELSE d[k]]

\* the value is not a key of the table: an unknown string, "Unknown", None, or
\* (by the default of .get) a missing key
NotAKey(cd, key, table) == key \notin DOMAIN cd \/ IsNone(cd[key]) \/ cd[key][1] \notin DOMAIN table

\* C4: a target_industry or target_company_size that is not a key of the lookup
\* tables gives, for the same jitter, the result of industry 'Finance' / size
\* 'Medium (51-200)' (factor 1.0), and nothing is raised
C4_UnknownCategoryIsNeutral ==
    (RuleReturned /\ WellFormed(call.campaign_data)) =>
        /\ NotAKey(call.campaign_data, "target_industry", industry_multipliers) =>
              call.ret = RulePrediction(InitBenchmarks,
                                        With(call.campaign_data, "target_industry", Val("Finance")),
                                        call.jitter)
        /\ NotAKey(call.campaign_data, "target_company_size", size_adjustments) =>
              call.ret = RulePrediction(InitBenchmarks,
                                        With(call.campaign_data, "target_company_size",
                                             Val("Medium (51-200)")),
                                        call.jitter)
        /\ call.ret.prediction_method = "rule_based_with_statistics"

\* industry None and no company size, with an open improvement above the floor
C4_Witness ==
    /\ RuleReturned
    /\ WellFormed(call.campaign_data)
    /\ "target_industry" \in DOMAIN call.campaign_data
    /\ IsNone(call.campaign_data["target_industry"])
    /\ "target_company_size" \notin DOMAIN call.campaign_data
    /\ call.ret.open_rate_improvement > OpenFloor * 10

categorical_inputs == {"target_industry", "target_company_size"}

\* C5: predict_improvements of the rule-based engine never raises, trained or
\* not; for well-formed input it returns a normal prediction, not the fallback,
\* also when categorical fields are missing, and the Campaign Service's
\* convert_campaign_for_ml has put "Unknown" where the campaign had none
C5_NeverRaises ==
    (variant = "simple" /\ call.op = "predict_improvements") =>
        /\ ~call.raised
        /\ WellFormed(call.campaign_data) =>
              call.ret.prediction_method = "rule_based_with_statistics"
        /\ call.origin.via = "service" =>
              \A k \in categorical_inputs :
                 IsNone(call.origin.campaign[k]) => call.campaign_data[k] = Val("Unknown")

\* a service campaign without industry and size, on an untrained model
C5_Witness ==
    /\ RuleReturned
    /\ call.origin.via = "service"
    /\ \A k \in categorical_inputs : IsNone(call.origin.campaign[k])
    /\ ~call.trained_before
    /\ call.ret.prediction_method = "rule_based_with_statistics"

model_fields == <<is_trained, historical_data, model_stats, benchmarks, model_file>>

SevenFields ==
    {"open_rate_improvement", "click_rate_improvement", "conversion_rate_improvement",
     "predicted_open_rate", "predicted_click_rate", "predicted_conversion_rate",
     "confidence_score"}

\* C7 as stated: every record returned by the engine's predict operation has
\* all seven output fields, on the normal path and on every fallback path
C7_SevenFields == Returned => SevenFields \subseteq DOMAIN call.ret

\* C7 as amended: every record returned by the rule-based engine has exactly
\* open_rate_improvement, click_rate_improvement, conversion_rate_improvement,
\* confidence_score and prediction_method (no predicted_* field), and every
\* record returned by the regressor variant has exactly
\* open_rate_improvement_percent, click_rate_improvement_percent,
\* conversion_rate_improvement_percent, predicted_open_rate,
\* predicted_click_rate, predicted_conversion_rate and confidence; on the
\* normal path and on the fallback paths alike
C7_RecordFields ==
    /\ RuleReturned =>
          DOMAIN call.ret = {"open_rate_improvement", "click_rate_improvement",
                             "conversion_rate_improvement", "confidence_score",
                             "prediction_method"}
    /\ MlReturned =>
          DOMAIN call.ret = {"open_rate_improvement_percent", "click_rate_improvement_percent",
                             "conversion_rate_improvement_percent", "predicted_open_rate",
                             "predicted_click_rate", "predicted_conversion_rate", "confidence"}

\* the rule-based engine has returned its fallback record
C7_Witness ==
    /\ RuleReturned
    /\ call.ret.prediction_method = "default_fallback"
    /\ call.ret.confidence_score = 50

\* C8: the prediction of the rule-based engine is a function of the input
\* record and the jitter draws alone, whatever train_model / load_model /
\* save_model / predict_improvements calls came before (statistics and history
\* have no influence), and its confidence_score is the same for every jitter
C8_PredictionIgnoresHistory ==
    RuleReturned =>
        /\ call.ret = PredictBody(InitBenchmarks, call.campaign_data, call.jitter)
        /\ \A jitter \in JitterDraws :
              PredictBody(InitBenchmarks, call.campaign_data, jitter).confidence_score
                 = call.ret.confidence_score

\* a normal prediction by a model that holds statistics and history of a training
C8_Witness ==
    /\ RuleReturned
    /\ call.ret.prediction_method = "rule_based_with_statistics"
    /\ call.ret.open_rate_improvement > OpenFloor * 10
    /\ historical_data # <<>>
    /\ model_stats # Unset
    /\ model_file # NoFile

\* C9: benchmarks is open_rate 22.0, click_rate 3.5, conversion_rate 2.0 in every
\* state reached by train_model, predict_improvements, save_model and load_model
C9_BenchmarksImmutable ==
    /\ benchmarks = [open_rate |-> 220, click_rate |-> 35, conversion_rate |-> 20]
    /\ (variant = "simple" /\ model_file # NoFile) =>
          JsonLoad(model_file).benchmarks = benchmarks

\* load_model has read a saved file into the object
C9_Witness ==
    /\ variant = "simple"
    /\ call.op = "load_model"
    /\ call.ret = Val(TRUE)
    /\ benchmarks = JsonLoad(model_file).benchmarks

\* C10: a missing open_rate, click_rate or conversion_rate is taken as 0: the gap
\* of that metric is the whole benchmark, and the prediction is the normal one
\* computed from that gap, the one of the same input with the field set to 0
C10_MissingNumericIsZero ==
    (RuleReturned /\ WellFormed(call.campaign_data)) =>
        \A m \in rate_fields :
           m \notin DOMAIN call.campaign_data =>
              /\ call.gaps[m] = InitBenchmarks[m]
              /\ call.ret.prediction_method = "rule_based_with_statistics"
              /\ call.ret = RulePrediction(InitBenchmarks, With(call.campaign_data, m, Val(0)),
                                           call.jitter)

\* open_rate is missing: the gap is 22.0 and the open improvement is 22.0 x 1.2
C10_Witness ==
    /\ RuleReturned
    /\ "open_rate" \notin DOMAIN call.campaign_data
    /\ "target_industry" \notin DOMAIN call.campaign_data
    /\ "target_company_size" \notin DOMAIN call.campaign_data
    /\ call.jitter[1] = 120
    /\ call.gaps["open_rate"] = 220
    /\ call.ret.open_rate_improvement = 264

\* gap x industry multiplier x size adjustment x jitter with
\* gap = max(0, benchmark - current), brought into [floor, ceiling] and rounded
\* to one decimal: tenths of a percent
ClampedProduct(cd, m, jitter, floor, ceiling) ==
    LET current == Num(cd, m)
        gap == IF InitBenchmarks[m] > current THEN InitBenchmarks[m] - current ELSE 0
        raw == gap * Lookup(industry_multipliers, Get(cd, "target_industry", Val("Unknown")))
                   * Lookup(size_adjustments, Get(cd, "target_company_size", Val("Unknown")))
                   * jitter
        clamped == IF raw < floor * RawUnit THEN floor * RawUnit
                   ELSE IF raw > ceiling * RawUnit THEN ceiling * RawUnit
                   ELSE raw
    IN  RoundDiv(clamped, RawPerTenth)

\* open_rate = 10, 'Retail', 'Small (1-50)'
RetailSmallExample(cd) ==
    /\ Get(cd, "open_rate", None) = Val(100)
    /\ Get(cd, "target_industry", None) = Val("Retail")
    /\ Get(cd, "target_company_size", None) = Val("Small (1-50)")

\* C14: for every input whose numeric fields are numbers or missing and every
\* jitter draw, each improvement returned by the rule-based predict_improvements
\* is clamp(gap x industry multiplier x size adjustment x jitter, floor, ceiling)
\* rounded to one decimal, with gap = max(0, benchmark - current); for
\* open_rate = 10, 'Retail', 'Small (1-50)' the gap is 12 and the open
\* improvement lies in [13.7, 20.6]
C14_ImprovementIsClampedProduct ==
    (RuleReturned /\ WellFormed(call.campaign_data)) =>
        LET cd == call.campaign_data
        IN  /\ call.ret.open_rate_improvement =
                   ClampedProduct(cd, "open_rate", call.jitter[1], 5, 45)
            /\ call.ret.click_rate_improvement =
                   ClampedProduct(cd, "click_rate", call.jitter[2], 8, 60)
            /\ call.ret.conversion_rate_improvement =
                   ClampedProduct(cd, "conversion_rate", call.jitter[3], 10, 80)
            /\ RetailSmallExample(cd) =>
                  /\ call.gaps["open_rate"] = 120
                  /\ call.ret.open_rate_improvement >= 137
                  /\ call.ret.open_rate_improvement <= 206

\* the example with the lowest jitter: 12 x 1.3 x 1.1 x 0.8 = 13.728, returned as 13.7
C14_Witness ==
    /\ RuleReturned
    /\ RetailSmallExample(call.campaign_data)
    /\ call.jitter[1] = 80
    /\ call.ret.open_rate_improvement = 137

\* 1 when the field is present and > 0
PresentAndPositive(cd, f) == IF f \in DOMAIN cd /\ cd[f][1] > 0 THEN 1 ELSE 0

\* clamp(0.7 x k / 4 + d, 0.3, 0.95) in thousandths
ConfidenceFormula(cd) ==
    LET k == PresentAndPositive(cd, "emails_sent") + PresentAndPositive(cd, "open_rate")
             + PresentAndPositive(cd, "click_rate") + PresentAndPositive(cd, "conversion_rate")
        emails_sent == IF "emails_sent" \in DOMAIN cd THEN cd["emails_sent"][1] ELSE 0
        d == IF emails_sent > 10000 THEN 100 ELSE IF emails_sent < 1000 THEN -100 ELSE 0
        x == 175 * k + d
    IN  IF x < 300 THEN 300 ELSE IF x > 950 THEN 950 ELSE x

\* C15: calculate_confidence returns clamp(0.7 x k/4 + d, 0.3, 0.95), k the number
\* of emails_sent, open_rate, click_rate, conversion_rate that are present and
\* > 0, d = +0.1 if emails_sent > 10000, -0.1 if emails_sent < 1000 (missing
\* counts as 0), else 0; emails_sent = 1000 and emails_sent = 10000 give d = 0;
\* the record carries that value rounded to two decimals
C15_ConfidenceFormula ==
    (RuleReturned /\ WellFormed(call.campaign_data)) =>
        LET cd == call.campaign_data
        IN  /\ call.confidence = Val(ConfidenceFormula(cd))
            /\ call.ret.confidence_score = RoundDiv(ConfidenceFormula(cd), 10)
            /\ Get(cd, "emails_sent", None) \in {Val(1000), Val(10000)} =>
                  call.confidence \in {Val(300), Val(350), Val(525), Val(700)}

\* all four fields positive and emails_sent on the upper boundary: 0.7, no bonus
C15_Witness ==
    /\ RuleReturned
    /\ WellFormed(call.campaign_data)
    /\ Get(call.campaign_data, "emails_sent", None) = Val(10000)
    /\ \A f \in rate_fields : f \in DOMAIN call.campaign_data /\ Num(call.campaign_data, f) > 0
    /\ call.confidence = Val(700)
    /\ call.ret.confidence_score = 70

metric_fields ==
    {<<"open_rate", "open_rate_improvement_percent", "predicted_open_rate">>,
     <<"click_rate", "click_rate_improvement_percent", "predicted_click_rate">>,
     <<"conversion_rate", "conversion_rate_improvement_percent", "predicted_conversion_rate">>}

\* x = round(num / den) for one of the two ways of rounding an exact half
IsRounding(x, num, den) ==
    \/ x = RoundDiv(num, den)
    \/ (2 * (num % den) = den /\ x \in {num \div den, num \div den + 1})

\* the statement of C16 as the specification has it: every result of
\* predict_improvements carries for each metric a predicted rate (hundredths)
\* equal to current_rate x (1 + improvement / 100) for the improvement of the
\* same result (tenths)
C16_PredictedFromReported ==
    Returned =>
        \A m \in metric_fields :
            /\ m[3] \in DOMAIN call.ret
            /\ m[2] \in DOMAIN call.ret
            /\ IsRounding(call.ret[m[3]],
                          call.campaign_data[m[1]][1] * (1000 + call.ret[m[2]]), 100)

\* C16: only the regressor variant returns predicted rates, the rule-based
\* engine returns none; in every result of the variant the predicted rate is
\* current_rate x (1 + u / 100) rounded to two decimals for the unrounded
\* improvement u whose rounding to one decimal is the reported improvement, so
\* it is within current_rate x 0.0005 + 0.005 of the value computed from the
\* reported improvement; for rates given to one decimal it is never below the
\* current rate and is 0 exactly when the current rate is 0
C16_PredictedFromUnrounded ==
    /\ RuleReturned => \A m \in metric_fields : m[3] \notin DOMAIN call.ret
    /\ MlReturned =>
          \A m \in metric_fields :
              LET current == call.campaign_data[m[1]][1]
                  reported == call.ret[m[2]]
                  predicted == call.ret[m[3]]
                  difference == 10000 * predicted - current * (100000 + 100 * reported)
              IN  /\ difference <= 50 * current + 5000
                  /\ -difference <= 50 * current + 5000
                  /\ predicted >= 10 * current
                  /\ (predicted = 0) <=> (current = 0)

\* get_fallback_prediction for open_rate = 5.8: the improvement is 38.04,
\* reported as 38.0, and the predicted rate is 8.01 where 5.8 x 1.38 is 8.00
C16_Witness ==
    /\ MlReturned
    /\ call.ret.confidence = "Low"
    /\ call.campaign_data["open_rate"] = Val(58)
    /\ call.ret.open_rate_improvement_percent = 380
    /\ call.ret.predicted_open_rate = 801

\* the (floor, ceiling) pairs of the three metrics, in RawUnit
ClampPairs ==
    [open_rate |-> <<OpenFloor * RawUnit, OpenCeiling * RawUnit>>,
     click_rate |-> <<ClickFloor * RawUnit, ClickCeiling * RawUnit>>,
     conversion_rate |-> <<ConversionFloor * RawUnit, ConversionCeiling * RawUnit>>]

Reclamped(x, pair) == Clamp(Clamp(x, pair[1], pair[2]), pair[1], pair[2]) = Clamp(x, pair[1], pair[2])

\* gap x multiplier x size_adj x jitter of the call for metric m, jitter number i
RawProduct(cd, m, i) ==
    Gap(InitBenchmarks, cd, m)
        * Lookup(industry_multipliers, Get(cd, "target_industry", Val("Unknown")))
        * Lookup(size_adjustments, Get(cd, "target_company_size", Val("Unknown")))
        * call.jitter[i]

\* C17: clamping is idempotent: for each metric's (floor, ceiling) and for the
\* confidence bounds (0.3, 0.95), min(ceiling, max(floor, .)) applied to an
\* already clamped value returns it unchanged; the values are the raw products
\* and the raw confidence of the call, the values around the bounds, and the
\* improvements and the confidence that were returned
C17_ClampIdempotent ==
    (RuleReturned /\ WellFormed(call.campaign_data)) =>
        LET cd == call.campaign_data
            returned == [open_rate |-> call.ret.open_rate_improvement,
                         click_rate |-> call.ret.click_rate_improvement,
                         conversion_rate |-> call.ret.conversion_rate_improvement]
            number == [open_rate |-> 1, click_rate |-> 2, conversion_rate |-> 3]
        IN  /\ \A m \in rate_fields :
                  /\ Reclamped(RawProduct(cd, m, number[m]), ClampPairs[m])
                  /\ \A x \in {-1, 0, ClampPairs[m][1] - 1, ClampPairs[m][1], ClampPairs[m][1] + 1,
                               ClampPairs[m][2] - 1, ClampPairs[m][2], ClampPairs[m][2] + 1} :
                        Reclamped(x, ClampPairs[m])
                  /\ Clamp(returned[m] * RawPerTenth, ClampPairs[m][1], ClampPairs[m][2])
                        = returned[m] * RawPerTenth
            /\ Reclamped(calculate_confidence_unclamped(cd), <<MinConfidence, MaxConfidence>>)
            /\ Clamp(call.confidence[1], MinConfidence, MaxConfidence) = call.confidence[1]

\* the raw open product is 0, below the floor, and the raw confidence is below
\* 0.3: both were clamped, and clamping the returned values again changes nothing
C17_Witness ==
    /\ RuleReturned
    /\ WellFormed(call.campaign_data)
    /\ RawProduct(call.campaign_data, "open_rate", 1) = 0
    /\ call.ret.open_rate_improvement = 50
    /\ Clamp(50 * RawPerTenth, OpenFloor * RawUnit, OpenCeiling * RawUnit) = 50 * RawPerTenth
    /\ calculate_confidence_unclamped(call.campaign_data) < MinConfidence
    /\ call.confidence = Val(MinConfidence)

\* emails_sent=5000, open_rate=28.5, click_rate=8.2, conversion_rate=3.1,
\* target_industry="E-commerce", target_company_size=None
BeatsBenchmarksExample ==
    [emails_sent |-> Val(5000), open_rate |-> Val(285), click_rate |-> Val(82),
     conversion_rate |-> Val(31), target_industry |-> Val("E-commerce"),
     target_company_size |-> None]

\* the statement of C18 as the specification has it: for the example all three
\* gaps are 0 and each improvement is its floor (5, 8, 10) times the jitter
\* factor, so that it varies with the jitter over [4,6], [6.4,9.6] and [6,14]
C18_FloorTimesJitter ==
    (RuleReturned /\ call.campaign_data = BeatsBenchmarksExample) =>
        /\ call.gaps = [open_rate |-> 0, click_rate |-> 0, conversion_rate |-> 0]
        /\ call.ret.open_rate_improvement = RoundDiv(OpenFloor * 10 * call.jitter[1], 100)
        /\ call.ret.click_rate_improvement = RoundDiv(ClickFloor * 10 * call.jitter[2], 100)
        /\ call.ret.conversion_rate_improvement =
               RoundDiv(ConversionFloor * 10 * call.jitter[3], 100)

\* C18: for the example all three gaps are 0 and each improvement is exactly
\* its floor, 5.0, 8.0 and 10.0, whatever the jitter: the jitter multiplies the
\* gap, which is 0, before the floor is applied
C18_ExactlyTheFloors ==
    (RuleReturned /\ call.campaign_data = BeatsBenchmarksExample) =>
        /\ call.gaps = [open_rate |-> 0, click_rate |-> 0, conversion_rate |-> 0]
        /\ call.ret.open_rate_improvement = 50
        /\ call.ret.click_rate_improvement = 80
        /\ call.ret.conversion_rate_improvement = 100
        /\ call.ret.prediction_method = "rule_based_with_statistics"

\* the example with the lowest jitter, where floor x jitter would be 4.0, 5.6, 6.0
C18_Witness ==
    /\ RuleReturned
    /\ call.campaign_data = BeatsBenchmarksExample
    /\ call.jitter = <<80, 70, 60>>
    /\ call.ret.open_rate_improvement = 50

\* the training clamp bounds of create_synthetic_improvement_data, percent
TrainingBounds ==
    [open_rate |-> <<OpenFloor, TrainOpenCeiling>>,
     click_rate |-> <<ClickFloor, TrainClickCeiling>>,
     conversion_rate |-> <<ConversionFloor, TrainConversionCeiling>>]

\* train_model has returned its metrics: it trained on at least 3 campaigns
TrainedOnCampaigns ==
    /\ variant = "simple"
    /\ call.op = "train_model"
    /\ "campaigns_trained" \in DOMAIN call.ret

\* min <= median <= max, min <= mean <= max, all within [floor, ceiling];
\* min and max are hundredths of a percent, mean and median quotients of them
StatsInOrder(s, floor, ceiling) ==
    /\ DOMAIN s = {"mean", "median", "max", "min"}
    /\ s.min * s.median.den <= s.median.num
    /\ s.median.num <= s.max * s.median.den
    /\ s.min * s.mean.den <= s.mean.num
    /\ s.mean.num <= s.max * s.mean.den
    /\ floor * 100 <= s.min
    /\ s.max <= ceiling * 100

\* C19: after train_model succeeds on at least 3 campaigns, model_stats holds
\* for each of open_rate, click_rate and conversion_rate a mean, median, min and
\* max of the synthetic improvements with min <= median <= max and
\* min <= mean <= max, all within the training clamp bounds (open [5,50], click
\* [8,75], conversion [10,100]); the statistics stay so whatever is called next
C19_StatsOrderedAndBounded ==
    /\ TrainedOnCampaigns =>
          /\ call.ret.campaigns_trained >= 3
          /\ model_stats # Unset
          /\ DOMAIN model_stats[1] = rate_fields
    /\ (variant = "simple" /\ model_stats # Unset /\ model_stats[1] # EmptyDict) =>
          \A m \in rate_fields :
              StatsInOrder(model_stats[1][m], TrainingBounds[m][1], TrainingBounds[m][2])

\* three campaigns whose synthetic open improvements differ: the median lies
\* strictly between the minimum, which is the floor, and the maximum
C19_Witness ==
    /\ TrainedOnCampaigns
    /\ Len(historical_data) = 3
    /\ LET s == model_stats[1]["open_rate"]
       IN  /\ s.min = OpenFloor * 100
           /\ s.min * s.median.den < s.median.num
           /\ s.median.num < s.max * s.median.den

\* POST /analyze-campaign has just answered 200 with an analysis
Answered == call.op = "analyze_campaign_endpoint" /\ call.status = 200

\* the six fields of an analysis that the record is said to keep
RecordOf(analysis) ==
    [f \in {"campaign_id", "campaign_data", "weak_spots", "ai_suggestions",
            "estimated_improvement", "ml_prediction"} |-> analysis[f]]

\* C11: the analysis stored by save_campaign_to_db and read back by
\* get_campaign_from_db, or as the newest of get_campaigns_from_db, has the same
\* campaign_id, campaign_data, weak_spots, ai_suggestions, estimated_improvement
\* and ml_prediction as the analysis POST /analyze-campaign returned
C11_ReadBackEqualsReturned ==
    Answered =>
        LET returned == call.response[1]
            one == get_campaign_from_db(db, returned.campaign_id)
            all == get_campaigns_from_db(db)
        IN  /\ ~one.raised /\ ~IsNone(one.ret)
            /\ RecordOf(one.ret[1]) = RecordOf(returned)
            /\ ~all.raised
            /\ RecordOf(all.ret[1][1]) = RecordOf(returned)

\* what the endpoint does keep: every field but ml_prediction, which is read
\* back as None
C11_ReadBackButPrediction ==
    Answered =>
        LET returned == call.response[1]
            one == get_campaign_from_db(db, returned.campaign_id)
        IN  /\ ~one.raised /\ ~IsNone(one.ret)
            /\ one.ret[1] = [returned EXCEPT !.ml_prediction = None]
            /\ get_campaigns_from_db(db).ret[1][1] = one.ret[1]

\* an analysis with a prediction was returned and stored
C11_Witness ==
    /\ Answered
    /\ ~call.fallback
    /\ ~IsNone(call.response[1].ml_prediction)
    /\ Len(db.rows) > 1

\* the engine failed while POST /analyze-campaign was handled
EngineFailed == call.op = "analyze_campaign_endpoint" /\ call.engine_fault

Columns(columns) == {columns[i] : i \in 1..Len(columns)}

\* C13: after migrate_database the table has every column it had plus the four
\* target columns, every row is there with its values unchanged, the columns
\* added are exactly the missing ones, a table that had them all is unchanged,
\* and running it again changes nothing
C13_MigrationSafeIdempotent ==
    call.op = "migrate_database" =>
        IF call.before = NoDb THEN db = NoDb /\ call.added = <<>>
        ELSE /\ db.columns = call.before.columns \cup Columns(new_columns)
             /\ Len(db.rows) = Len(call.before.rows)
             /\ \A i \in 1..Len(db.rows) :
                    /\ DOMAIN db.rows[i] = db.columns
                    /\ \A c \in call.before.columns : db.rows[i][c] = call.before.rows[i][c]
             /\ Columns(call.added) = Columns(new_columns) \ call.before.columns
             /\ Len(call.added) = Cardinality(Columns(call.added))
             /\ call.added = <<>> => db = call.before
             /\ MigrateDatabase(db) = [db |-> db, added |-> <<>>]

\* a table with rows and two of the four columns was migrated
C13_Witness ==
    /\ call.op = "migrate_database"
    /\ call.before # NoDb
    /\ Len(call.before.rows) > 0
    /\ call.added = <<"target_industry", "target_company_size">>
    /\ HasColumns(db)

\* the calls of train_model that reach the statistics
FullJobs ==
    {job \in TrainingJobs :
        /\ Len(job.campaigns_data) >= MinTrainingCampaigns
        /\ \A i \in 1..Len(job.campaigns_data) :
               ~NumericRaises(job.campaigns_data[i], {"open_rate", "click_rate", "conversion_rate"})}

\* model_stats of a training run on the job; the benchmarks never change here
StatsOfJob(job) ==
    ModelStats(create_synthetic_improvement_data(InitBenchmarks, job.campaigns_data, job.draws))

\* C20: with train_model, save_model and predict_improvements running from
\* concurrent handlers on the global model, no interleaving lets save_model
\* write a mixed state: the saved historical_data_count is the number of
\* campaigns the saved model_stats was computed from, and 0 when no statistics
\* were computed
C20_SavedCountMatchesStats ==
    model_file # NoFile =>
        LET saved == JsonLoad(model_file)
        IN  /\ saved.model_stats = EmptyDict => saved.historical_data_count = 0
            /\ \A job \in FullJobs :
                   saved.model_stats = StatsOfJob(job) =>
                       saved.historical_data_count = Len(job.campaigns_data)

\* two training runs on lists of different lengths are under way at once, the
\* statistics of the jobs differing
C20_Witness ==
    /\ threads[1].pc = "line 118"
    /\ threads[2].pc = "line 253"
    /\ Len(threads[1].campaigns_data) # Len(threads[2].campaigns_data)
    /\ \A a, b \in FullJobs : StatsOfJob(a) = StatsOfJob(b) => a = b

\* 22 x 1.3 x 1.1 x 1.2 = 37.752, returned as 37.8: tenths of a percent
LargestOpenImprovement == 378

\* C21: for every valid input (all rates in [0,100], any industry, any company
\* size, any jitter draw) the click improvement returned by the rule-based
\* predict_improvements is exactly its floor 8 and the conversion improvement
\* exactly its floor 10, and the open improvement is at most
\* 22 x 1.3 x 1.1 x 1.2, below its ceiling 45
C21_OnlyOpenVaries ==
    (RuleReturned /\ ValidInput(call.campaign_data)) =>
        /\ call.ret.click_rate_improvement = ClickFloor * 10
        /\ call.ret.conversion_rate_improvement = ConversionFloor * 10
        /\ call.ret.open_rate_improvement <= LargestOpenImprovement
        /\ call.ret.open_rate_improvement < OpenCeiling * 10

\* all three rates are 0, 'Retail', 'Small (1-50)' and the largest jitter: the
\* gaps are the benchmarks, the open improvement is the largest there is, the
\* click and conversion products 6.5 and 4.0 stay under their floors
C21_Witness ==
    /\ RuleReturned
    /\ ValidInput(call.campaign_data)
    /\ \A m \in rate_fields : call.campaign_data[m][1] = 0
    /\ call.gaps = InitBenchmarks
    /\ call.jitter = <<120, 130, 140>>
    /\ call.ret.open_rate_improvement = LargestOpenImprovement
    /\ call.ret.click_rate_improvement = ClickFloor * 10

\* train_model has returned the dict of its except branch
TrainingRaised ==
    call.op = "train_model" /\ "status" \in DOMAIN call.ret /\ call.ret.status = "error"

\* C22: every call to train_model ends with is_trained = True, whatever the
\* number of campaigns and also when training raises internally, and so does
\* every call to predict_improvements that returns
C22_TrainedAfterCall ==
    (variant = "simple" /\ call.op \in {"train_model", "predict_improvements"}) =>
        is_trained = TRUE

\* the first call on a fresh model is a train_model whose list holds a campaign
\* with a None rate: the except branch has run and no statistics were made
C22_Witness ==
    /\ variant = "simple"
    /\ TrainingRaised
    /\ Len(call.campaigns_data) >= MinTrainingCampaigns
    /\ model_stats = Unset
    /\ is_trained = TRUE

\* C23 as stated: over every sequence of train_model, predict_improvements,
\* save_model and load_model calls on one model object, the file written only
\* by save_model, once is_trained is True it never becomes False again
C23_IsTrainedMonotone == [][(variant = "simple" /\ is_trained) => is_trained']_vars

\* C23: is_trained goes from True to False in one step only: a load_model that
\* reads a file whose is_trained is False.  train_model, predict_improvements and
\* save_model never clear it
C23_OnlyLoadClears ==
    [][(variant = "simple" /\ is_trained /\ ~is_trained') =>
           /\ call'.op = "load_model"
           /\ model_file # NoFile
           /\ JsonLoad(model_file).is_trained = FALSE]_vars

\* a trained model has loaded the file saved before it was trained and is
\* untrained again
C23_Witness ==
    /\ variant = "simple"
    /\ call.op = "load_model"
    /\ call.trained_before
    /\ call.ret = Val(TRUE)
    /\ is_trained = FALSE

\* the step is a train_model on fewer than 3 campaigns
ShortTraining ==
    /\ variant = "simple"
    /\ call'.op = "train_model"
    /\ Len(call'.campaigns_data) < MinTrainingCampaigns

\* C24: train_model called with fewer than 3 campaigns returns status
\* "trained_with_defaults" with the campaign count and changes nothing except
\* is_trained: historical_data, model_stats, benchmarks and the saved model file
\* are left as they were
C24_ShortTrainingFrame ==
    [][ShortTraining =>
           /\ call'.ret = [status |-> "trained_with_defaults",
                           campaigns_count |-> Len(call'.campaigns_data)]
           /\ is_trained' = TRUE
           /\ UNCHANGED <<historical_data, model_stats, benchmarks, model_file>>]_vars

\* a model trained on three campaigns and saved has then been given two
\* campaigns: its history, statistics and file are still there
C24_Witness ==
    /\ variant = "simple"
    /\ call.op = "train_model"
    /\ Len(call.campaigns_data) = 2
    /\ call.ret.campaigns_count = 2
    /\ Len(historical_data) = 3
    /\ model_stats # Unset
    /\ model_file # NoFile
    /\ JsonLoad(model_file).historical_data_count = 3

\* load_model has just read the model file, called by a handler or by the
\* import of the module
Loaded ==
    /\ variant = "simple"
    /\ call.op \in {"load_model", "import_module"}
    /\ call.ret = Val(TRUE)

\* C25 as stated: save_model followed by load_model is a round trip on the
\* persisted model state: is_trained, benchmarks and model_stats after the load
\* are those of the save, and a further save_model after that load writes the
\* same file content as the first save, historical_data_count included
C25_SaveLoadSave ==
    Loaded =>
        LET saved == JsonLoad(model_file)
        IN  /\ is_trained = saved.is_trained
            /\ benchmarks = saved.benchmarks
            /\ model_stats = <<saved.model_stats>>
            /\ SavedModel(Self) = model_file

\* what does hold after load_model: is_trained, benchmarks and model_stats are those of
\* the save, and a further save_model writes them again; the
\* historical_data_count it writes is the length of the loading object's
\* historical_data, which load_model does not restore: 0 for the object made
\* by the import of the module, whatever count the file holds
C25_RoundTripButCount ==
    Loaded =>
        LET saved == JsonLoad(model_file)
        IN  /\ is_trained = saved.is_trained
            /\ benchmarks = saved.benchmarks
            /\ model_stats = <<saved.model_stats>>
            /\ SavedModel(Self) =
                   JsonDump([saved EXCEPT !.historical_data_count = Len(historical_data)])
            /\ call.op = "import_module" => historical_data = <<>>

\* a new process has loaded the file of a model trained on three campaigns
C25_Witness ==
    /\ Loaded
    /\ call.op = "import_module"
    /\ JsonLoad(model_file).historical_data_count = 3
    /\ JsonLoad(model_file).model_stats # EmptyDict
    /\ is_trained = TRUE

\* POST /train-ml-model has answered with the message of a successful training
ReportedTrained ==
    /\ call.op = "train_ml_model_endpoint"
    /\ call.status = 200
    /\ call.response.message = "ML model trained successfully"

\* C26: whenever train_ml_model_with_database reports "ML model trained
\* successfully", which it does for any table holding at least 3 campaigns, the
\* model's is_trained flag is True afterwards and the returned metrics are
\* training metrics rather than an error
C26_SuccessMeansTrained ==
    /\ ReportedTrained =>
          /\ is_trained = TRUE
          /\ "error" \notin DOMAIN call.response.metrics
    /\ (call.op = "train_ml_model_endpoint" /\ call.status = 200
            /\ Len(db.rows) >= ServiceMinCampaigns) => ReportedTrained

\* what the success message does tell: the table holds at least 3 campaigns;
\* the model is trained, with metrics, only from 5 campaigns on, and with 3 or
\* 4 the metrics are the error dict of train and the model is as it was
C26_SuccessFromFive ==
    ReportedTrained =>
        /\ call.response.campaigns_count = Len(db.rows)
        /\ Len(db.rows) >= ServiceMinCampaigns
        /\ IF Len(db.rows) >= MlMinTrainingCampaigns
           THEN is_trained = TRUE /\ "error" \notin DOMAIN call.response.metrics
           ELSE call.response.metrics = [error |-> "Insufficient training data"]

\* four campaigns in the table: success is reported, the model is untrained
C26_Witness ==
    /\ ReportedTrained
    /\ Len(db.rows) = 4
    /\ is_trained = FALSE
    /\ "error" \in DOMAIN call.response.metrics

\* one of the two analyzers has returned an analysis
Analyzed == call.op \in {"analyze_campaign", "analyze_campaign_with_ai"}

\* C27: for every campaign the weak_spots of analyze_campaign and of
\* analyze_campaign_with_ai are the same list, never empty, with "Low open rate"
\* iff open_rate < 20, "Low click-through rate" iff click_rate < 3, "Low
\* conversion rate" iff conversion_rate < 2, and "No major issues detected" iff
\* none of the three is there
C27_WeakSpots ==
    Analyzed =>
        LET weak_spots == call.analysis.weak_spots
            campaign == call.campaign
            low == {spot \in {"Low open rate", "Low click-through rate", "Low conversion rate"} :
                       InSeq(spot, weak_spots)}
        IN  /\ weak_spots = WeakSpots(campaign)
            /\ weak_spots = WeakSpotsWithAi(campaign)
            /\ Len(weak_spots) >= 1
            /\ ("Low open rate" \in low) <=> (campaign.open_rate[1] < 200)
            /\ ("Low click-through rate" \in low) <=> (campaign.click_rate[1] < 30)
            /\ ("Low conversion rate" \in low) <=> (campaign.conversion_rate[1] < 20)
            /\ InSeq("No major issues detected", weak_spots) <=> (low = {})

\* analyze_campaign_with_ai on open_rate 20.0, click_rate 2.9 and
\* conversion_rate 2.0: the rates at their thresholds are not weak spots
C27_Witness ==
    /\ call.op = "analyze_campaign_with_ai"
    /\ call.campaign.open_rate = Val(200)
    /\ call.campaign.click_rate = Val(29)
    /\ call.campaign.conversion_rate = Val(20)
    /\ call.analysis.weak_spots = <<"Low click-through rate">>

\* the list comes from get_fallback_suggestions
FromFallback ==
    \/ call.op = "analyze_campaign"
    \/ call.reply.kind # "reply"
    \/ ParseReply(call.reply.lines) = <<>>

\* C28: the ai_suggestions of every analysis has at least one suggestion on
\* every path: no API key, a reply without a parsable list item, an API error
\* and the analysis without the language model; it is the "solid performance"
\* message alone when no weak spot was found on these paths
C28_SuggestionsNeverEmpty ==
    Analyzed =>
        /\ Len(call.analysis.ai_suggestions) >= 1
        /\ FromFallback =>
              call.analysis.ai_suggestions =
                  get_fallback_suggestions(call.campaign, call.analysis.weak_spots)
        /\ (FromFallback /\ call.analysis.weak_spots = <<"No major issues detected">>) =>
              call.analysis.ai_suggestions = <<<<"Your campaign shows solid performance!">>>>

\* the language model replied with lines none of which is a list item with
\* text, for a campaign without weak spots
C28_Witness ==
    /\ call.op = "analyze_campaign_with_ai"
    /\ call.reply.kind = "reply"
    /\ Len(call.reply.lines) > 1
    /\ ParseReply(call.reply.lines) = <<>>
    /\ call.analysis.weak_spots = <<"No major issues detected">>
    /\ call.analysis.ai_suggestions = <<<<"Your campaign shows solid performance!">>>>

\* C29: every POST /analyze-campaign that returns an analysis adds exactly one
\* row to the campaigns table and the id of that row is the returned
\* campaign_id, also when the first attempt failed at the analysis, at the
\* commit or at the refresh and the fallback analysis was saved instead
C29_ExactlyOneRow ==
    Answered =>
        /\ Len(db.rows) = Len(call.rows_before) + 1
        /\ SubSeq(db.rows, 1, Len(call.rows_before)) = call.rows_before
        /\ db.rows[Len(db.rows)]["id"] = call.response[1].campaign_id

\* what does hold of an answered request: the newest row is the returned
\* analysis and the rows before the request are kept; one more row lies
\* between them exactly when the save of the try block raised at its refresh,
\* and that row is the analysis made with the engine, which was not returned
C29_RowOfTheAnswer ==
    Answered =>
        LET before == Len(call.rows_before)
            orphaned == call.fallback /\ ~call.engine_fault /\ call.faults[1] = "refresh"
                        /\ Len(db.rows) = before + 2
        IN  /\ Len(db.rows) > before
            /\ SubSeq(db.rows, 1, before) = call.rows_before
            /\ db.rows[Len(db.rows)] = CampaignRow(call.response[1])
            /\ Len(db.rows) = before + (IF orphaned THEN 2 ELSE 1)
            /\ orphaned =>
                  /\ db.rows[before + 1]["id"] # call.response[1].campaign_id
                  /\ db.rows[before + 1]["campaign_name"] = call.campaign["campaign_name"]
                  /\ db.rows[before + 1]["estimated_improvement"] #
                         <<"5-15% improvement possible with suggested changes">>

\* the save of the try block raised at its refresh and the fallback analysis
\* was returned: two rows were added for the one request
C29_Witness ==
    /\ Answered
    /\ call.fallback
    /\ call.faults = <<"refresh", "none">>
    /\ Len(db.rows) = Len(call.rows_before) + 2

====
